---------------------------- MODULE Spec2Model ----------------------------
(***************************************************************************)
(* AudioInk (transcribe0): caption acquisition, caption text               *)
(* normalisation and chunked transcription.                                *)
(*                                                                         *)
(* Text is modelled at the character level: a Python str is a sequence of  *)
(* one-character strings, so that the regular expressions, str.strip,      *)
(* str.split and the substring tests of the source are computed as the     *)
(* source computes them.                                                   *)
(*                                                                         *)
(* The module holds one specification per component; each one leaves the   *)
(* variables of the other components at their idle values.                 *)
(*   SpecClean      clean_subtitle_text          (utils.py)                *)
(*   SpecCaption    get_youtube_subtitles        (youtube_handler.py)      *)
(*   SpecPriority   the language priority list   (youtube_handler.py)      *)
(*   SpecRerun      the priority list, twice     (youtube_handler.py)      *)
(*   SpecTranscribe transcribe_audio_file and handle_transcription_process *)
(*                  (audio_processing.py, audioink.py)                     *)
(*   SpecAttempts   successive attempts of a session                       *)
(*                  (audioink.py, ui_components.py)                        *)
(*   SpecSources    a session in which the source changes                  *)
(*                  (ui_components.py, utils.py, audioink.py)              *)
(*   SpecSelect     the choice of the caption file (youtube_handler.py)    *)
(*   SpecMarkup     clean_subtitle_text on markup (utils.py)               *)
(*   SpecModelCache the speech models of the process                       *)
(*                  (audio_processing.py, youtube_handler.py)              *)
(***************************************************************************)
EXTENDS Integers, Sequences, FiniteSets, TLC

VARIABLES
    \* ---- clean_subtitle_text (utils.py)
    subtitle_content,   \* the caption payload: the argument of clean_subtitle_text
    clean_lines,        \* the list clean_lines at the join
    cleaned_text,       \* the value clean_subtitle_text returned
    recleaned_text,     \* the value of clean_subtitle_text(cleaned_text)
    clean_pc,           \* "start" | "cleaned" | "recleaned"
    \* ---- get_youtube_subtitles (youtube_handler.py)
    language,               \* the argument language
    use_whisper_detection,  \* the argument use_whisper_detection
    speech_language,        \* the language the speech model hears in the audio
                            \* of the video at url
    detection,              \* detected_language and confidence of the speech model
    whisper_detected_lang,
    video_language,
    subtitles,              \* the keys of video_info['subtitles']
    automatic_captions,     \* the keys of video_info['automatic_captions']
    subtitle_langs,
    subtitle_langs_again,   \* subtitle_langs of a second call with the same inputs
    dir_files,              \* os.listdir(temp_dir)
    subtitle_files,
    best_subtitle,
    detected_language,
    track_read,             \* whether f.read() of the track file returned
    failures,               \* the steps of the call that raised so far
    ret,                    \* the value the call returned
    raised,                 \* whether an exception left get_youtube_subtitles
    cap_pc,                 \* the position in get_youtube_subtitles
    \* ---- transcribe_audio_file and its caller (audio_processing.py, audioink.py)
    audio_source,       \* "youtube" | "upload" | "none"
    audio_ms,           \* len(audio): the length of the audio in milliseconds
    transcriptions,     \* the list transcriptions of process_large_audio
    live_text,          \* the text shown while the transcription runs
    tr_ret,             \* the transcription transcribe_audio_file returned
    tr_raised,          \* whether an exception left transcribe_audio_file
    tr_failures,        \* the steps of the run that raised
    session_state,      \* st.session_state
    session_before,     \* st.session_state when the run started
    tr_pc,              \* the position in handle_transcription_process
    chunks,             \* the list chunks of process_large_audio, as [start, end) in ms
    invocations,        \* the calls of model.transcribe made so far
    media_file,         \* whether the temporary copy of the media exists
    chunk_files,        \* the chunks whose temporary .wav file exists
    \* ---- the speech models of the process (audio_processing.py, youtube_handler.py)
    model_cache,        \* the identifiers st.cache_resource holds a model for
    cache_lock,         \* the request that computes a missing cache entry, or 0
    loads,              \* the number of whisper.load_model calls per identifier
    requests            \* the requests running in the process

cleanVars == <<subtitle_content, clean_lines, cleaned_text, recleaned_text, clean_pc>>

inputVars == <<language, use_whisper_detection, speech_language>>
detectVars == <<detection, whisper_detected_lang>>
metadataVars == <<video_language, subtitles, automatic_captions>>
trackVars == <<dir_files, subtitle_files, best_subtitle, detected_language, track_read>>
captionVars == <<inputVars, detectVars, metadataVars, subtitle_langs,
                 subtitle_langs_again, trackVars, failures, ret, raised, cap_pc>>

diskVars == <<chunks, invocations, media_file, chunk_files>>

transcribeVars == <<audio_source, audio_ms, transcriptions, live_text, tr_ret,
                    tr_raised, tr_failures, session_state, session_before, tr_pc,
                    diskVars>>

cacheVars == <<model_cache, cache_lock, loads, requests>>

vars == <<cleanVars, captionVars, transcribeVars, cacheVars>>

-----------------------------------------------------------------------------
(* Characters and generic str helpers                                      *)

Digits == {"0", "1", "2", "3", "4", "5", "6", "7", "8", "9"}

\* what str.strip(), str.split() and the regex class \s treat as white space
Whitespace == {" ", "\t", "\n", "\r"}

Uppers == <<"A","B","C","D","E","F","G","H","I","J","K","L","M",
            "N","O","P","Q","R","S","T","U","V","W","X","Y","Z">>
Lowers == <<"a","b","c","d","e","f","g","h","i","j","k","l","m",
            "n","o","p","q","r","s","t","u","v","w","x","y","z">>

LowerChar(c) ==
    IF \E i \in 1..Len(Uppers) : Uppers[i] = c
    THEN Lowers[CHOOSE i \in 1..Len(Uppers) : Uppers[i] = c]
    ELSE c

\* str.lower()
Lower(s) == [i \in 1..Len(s) |-> LowerChar(s[i])]

\* s[i:] of Python for the 1-based index i
Drop(s, i) == SubSeq(s, i, Len(s))

\* whether p occurs in s at the 1-based index i
MatchAt(s, p, i) ==
    /\ i >= 1
    /\ i + Len(p) - 1 <= Len(s)
    /\ \A k \in 1..Len(p) : s[i + k - 1] = p[k]

\* s.startswith(p)
StartsWith(s, p) == MatchAt(s, p, 1)

\* s.endswith(p)
EndsWith(s, p) == MatchAt(s, p, Len(s) - Len(p) + 1)

\* p in s
Contains(s, p) == \E i \in 1..(Len(s) + 1) : MatchAt(s, p, i)

\* s.strip(chars): the characters of cs removed from both ends
StripChars(s, cs) ==
    LET keep == {i \in 1..Len(s) : s[i] \notin cs}
        Lo == CHOOSE i \in keep : \A j \in keep : i <= j
        Hi == CHOOSE i \in keep : \A j \in keep : i >= j
    IN IF keep = {} THEN <<>> ELSE SubSeq(s, Lo, Hi)

\* s.strip()
Strip(s) == StripChars(s, Whitespace)

\* s.split(sep) for a one-character separator: always at least one field
RECURSIVE SplitOn(_, _)
SplitOn(s, sep) ==
    LET at == {i \in 1..Len(s) : s[i] = sep}
        first == CHOOSE i \in at : \A j \in at : i <= j
    IN IF at = {} THEN <<s>>
       ELSE <<SubSeq(s, 1, first - 1)>> \o SplitOn(Drop(s, first + 1), sep)

\* s.split(): the maximal runs of non-white-space characters
RECURSIVE SplitWhitespace(_)
SplitWhitespace(s) ==
    LET t == Strip(s)
        ws == {i \in 1..Len(t) : t[i] \in Whitespace}
        first == CHOOSE i \in ws : \A j \in ws : i <= j
    IN IF t = <<>> THEN <<>>
       ELSE IF ws = {} THEN <<t>>
       ELSE <<SubSeq(t, 1, first - 1)>> \o SplitWhitespace(Drop(t, first + 1))

\* sep.join(parts)
RECURSIVE Join(_, _)
Join(parts, sep) ==
    IF parts = <<>> THEN <<>>
    ELSE IF Len(parts) = 1 THEN parts[1]
    ELSE parts[1] \o sep \o Join(Tail(parts), sep)

\* pattern.sub(repl, s): the leftmost non-overlapping matches replaced.
\* ends[j] is the index of the last character of the match that starts at j,
\* or 0 when the pattern does not match there. The scan resumes after each
\* match, at the next index where the pattern matches.
RECURSIVE SubFrom(_, _, _, _)
SubFrom(ends, repl, s, i) ==
    LET starts == {j \in i..Len(s) : ends[j] > 0}
        next == CHOOSE j \in starts : \A k \in starts : j <= k
    IN IF starts = {} THEN Drop(s, i)
       ELSE SubSeq(s, i, next - 1) \o repl \o SubFrom(ends, repl, s, ends[next] + 1)

\* the first index j >= i with s[j] = c, or 0
IndexFrom(s, c, i) ==
    LET at == {j \in i..Len(s) : s[j] = c}
    IN IF at = {} THEN 0 ELSE CHOOSE j \in at : \A k \in at : j <= k

-----------------------------------------------------------------------------
(* constants.py: the pre-compiled patterns                                 *)

IsDigitAt(s, i) == i <= Len(s) /\ s[i] \in Digits
IsCharAt(s, i, c) == i <= Len(s) /\ s[i] = c

\* \d{2}:\d{2}:\d{2} at index i
ClockAt(s, i) ==
    /\ IsDigitAt(s, i) /\ IsDigitAt(s, i + 1) /\ IsCharAt(s, i + 2, ":")
    /\ IsDigitAt(s, i + 3) /\ IsDigitAt(s, i + 4) /\ IsCharAt(s, i + 5, ":")
    /\ IsDigitAt(s, i + 6) /\ IsDigitAt(s, i + 7)

\* TIMESTAMP_REGEX = <\d{2}:\d{2}:\d{2}\.\d{3}>
TIMESTAMP_REGEX(s, i) ==
    IF /\ IsCharAt(s, i, "<")
       /\ ClockAt(s, i + 1)
       /\ IsCharAt(s, i + 9, ".")
       /\ IsDigitAt(s, i + 10) /\ IsDigitAt(s, i + 11) /\ IsDigitAt(s, i + 12)
       /\ IsCharAt(s, i + 13, ">")
    THEN i + 13 ELSE 0

\* HTML_TAG_REGEX = <[^>]+> : a "<", at least one character other than ">",
\* then the first ">" (the class [^>] matches "<" and line breaks too)
HTML_TAG_REGEX(s, i) ==
    IF IsCharAt(s, i, "<")
    THEN LET e == IndexFrom(s, ">", i + 1)
         IN IF e > i + 1 THEN e ELSE 0
    ELSE 0

\* WHITESPACE_REGEX = \s+ : a maximal run of white space
WHITESPACE_REGEX(s, i) ==
    IF i <= Len(s) /\ s[i] \in Whitespace
    THEN LET rest == {j \in i..Len(s) : s[j] \notin Whitespace}
         IN IF rest = {} THEN Len(s)
            ELSE (CHOOSE j \in rest : \A k \in rest : j <= k) - 1
    ELSE 0

\* an opener, as few characters other than a line break as possible, a closer
LazyPair(s, i, open, close) ==
    IF IsCharAt(s, i, open)
    THEN LET e == IndexFrom(s, close, i + 1)
         IN IF e > 0 /\ \A k \in (i + 1)..(e - 1) : s[k] # "\n" THEN e ELSE 0
    ELSE 0

\* BRACKET_CONTENT_REGEX = \[.*?\]
BRACKET_CONTENT_REGEX(s, i) == LazyPair(s, i, "[", "]")

\* PAREN_CONTENT_REGEX = \(.*?\)
PAREN_CONTENT_REGEX(s, i) == LazyPair(s, i, "(", ")")

\* TIME_PATTERN_REGEX = ^\d{2}:\d{2}:\d{2}, used with .match(line)
TIME_PATTERN_REGEX(line) == ClockAt(line, 1)

\* TIMESTAMP_REGEX.sub('', s)
TimestampSub(s) == SubFrom([j \in 1..Len(s) |-> TIMESTAMP_REGEX(s, j)], <<>>, s, 1)

\* HTML_TAG_REGEX.sub('', s)
HtmlTagSub(s) == SubFrom([j \in 1..Len(s) |-> HTML_TAG_REGEX(s, j)], <<>>, s, 1)

\* WHITESPACE_REGEX.sub(' ', s)
WhitespaceSub(s) == SubFrom([j \in 1..Len(s) |-> WHITESPACE_REGEX(s, j)], <<" ">>, s, 1)

\* BRACKET_CONTENT_REGEX.sub('', s)
BracketSub(s) == SubFrom([j \in 1..Len(s) |-> BRACKET_CONTENT_REGEX(s, j)], <<>>, s, 1)

\* PAREN_CONTENT_REGEX.sub('', s)
ParenSub(s) == SubFrom([j \in 1..Len(s) |-> PAREN_CONTENT_REGEX(s, j)], <<>>, s, 1)


-----------------------------------------------------------------------------
(* utils.py: clean_subtitle_text                                           *)

\* len(line) < 3 drops the line
MIN_LINE_LENGTH == 3

\* len(line_key) > 5 keeps the line
MIN_KEY_LENGTH == 5

skip_prefixes == << <<"W","E","B","V","T","T">>, <<"K","i","n","d",":">>,
                    <<"L","a","n","g","u","a","g","e",":">>, <<"N","O","T","E">> >>

\* str.isdigit(): not empty and digits only
IsDigit(line) == line # <<>> /\ \A i \in 1..Len(line) : line[i] \in Digits

\* SkipLine without the test for the header prefixes
SkipLineNoPrefixTest(line) ==
    \/ Len(line) < MIN_LINE_LENGTH
    \/ Contains(line, <<"-","-",">">>)
    \/ IsDigit(line)
    \/ TIME_PATTERN_REGEX(line)

\* the `continue` tests of the loop, on the stripped line
SkipLine(line) ==
    \/ Len(line) < MIN_LINE_LENGTH
    \/ \E k \in 1..Len(skip_prefixes) : StartsWith(line, skip_prefixes[k])
    \/ Contains(line, <<"-","-",">">>)
    \/ IsDigit(line)
    \/ TIME_PATTERN_REGEX(line)

\* ' '.join(line.split())
NormalizeWhitespace(line) == Join(SplitWhitespace(line), <<" ">>)

\* line.lower().strip('.,!?')
LineKey(line) == StripChars(Lower(line), {".", ",", "!", "?"})

\* KeepLine without the test for a key seen before
KeepLineNoSeenTest(line_key, seen_sentences) == Len(line_key) > MIN_KEY_LENGTH

\* line_key not in seen_sentences and len(line_key) > 5
KeepLine(line_key, seen_sentences) ==
    line_key \notin seen_sentences /\ Len(line_key) > MIN_KEY_LENGTH

\* the for loop over lines: the list clean_lines it leaves
RECURSIVE LineLoop(_, _, _)
LineLoop(lines, seen_sentences, kept) ==
    IF lines = <<>> THEN kept
    ELSE LET stripped == Strip(Head(lines))
             line == NormalizeWhitespace(stripped)
             line_key == LineKey(line)
         IN IF SkipLine(stripped)
            THEN LineLoop(Tail(lines), seen_sentences, kept)
            ELSE IF KeepLine(line_key, seen_sentences)
            THEN LineLoop(Tail(lines), seen_sentences \cup {line_key},
                          Append(kept, line))
            ELSE LineLoop(Tail(lines), seen_sentences, kept)

\* variant: the tags are left in the text
StripMarkupTimestampsOnly(content) == TimestampSub(content)

\* the two substitutions before the split
StripMarkup(content) == HtmlTagSub(TimestampSub(content))

\* text.split('\n') of the text without markup
SplitLines(content) == SplitOn(StripMarkup(content), "\n")

\* clean_lines when the loop ends
CleanLines(content) == LineLoop(SplitLines(content), {}, <<>>)

\* the substitutions after the join, and the final strip
FinalCleanup(result) == Strip(ParenSub(BracketSub(WhitespaceSub(result))))

clean_subtitle_text(content) == FinalCleanup(Join(CleanLines(content), <<" ">>))

-----------------------------------------------------------------------------
(* youtube_handler.py: language codes and sentinels                        *)

\* Python's None
None == <<"<None>">>

auto == <<"a","u","t","o">>
unknown == <<"u","n","k","n","o","w","n">>
none == <<"n","o","n","e">>
en == <<"e","n">>
es == <<"e","s">>
fr == <<"f","r">>
de == <<"d","e">>
it == <<"i","t">>
pt == <<"p","t">>

\* for lang in ['es', 'en', 'fr', 'de', 'it', 'pt']
common_languages == <<es, en, fr, de, it, pt>>

\* the two values of priority_order
english_first == <<en, es, fr, de, it, pt>>
spanish_first == <<es, en, fr, de, it, pt>>

\* list(available_langs)[:6]
MAX_FALLBACK_LANGS == 6

\* if confidence > 0.5, in hundredths
CONFIDENCE_THRESHOLD == 50

\* the elements of a list
Range(list) == {list[i] : i \in 1..Len(list)}

\* [x for x in list if x in keep and x != drop]
RECURSIVE FilterList(_, _, _)
FilterList(list, keep, drop) ==
    IF list = <<>> THEN <<>>
    ELSE IF Head(list) \in keep /\ Head(list) # drop
    THEN <<Head(list)>> \o FilterList(Tail(list), keep, drop)
    ELSE FilterList(Tail(list), keep, drop)

\* the lists of n distinct members of the set S, in every order: what the
\* first n elements of an iteration over a Python set can be (the order of a
\* set of str depends on the per-process hash seed)
RECURSIVE Orderings(_, _)
Orderings(S, n) ==
    IF n = 0 \/ S = {} THEN {<<>>}
    ELSE UNION {{<<x>> \o t : t \in Orderings(S \ {x}, n - 1)} : x \in S}

-----------------------------------------------------------------------------
(* youtube_handler.py: detect_language_with_whisper                        *)

\* the return value for a detection (language, confidence in hundredths)
WhisperVerdict(detected, confidence) ==
    IF confidence > CONFIDENCE_THRESHOLD THEN detected ELSE unknown

-----------------------------------------------------------------------------
(* youtube_handler.py: get_youtube_subtitles, the language priority list   *)

\* variant: the first entry is not left out of the common languages
SmartPriorityKeepFirst(first, available_langs) ==
    <<first>> \o FilterList(common_languages, available_langs, None)

\* [first] followed by the common languages that are available, first left out
SmartPriority(first, available_langs) ==
    <<first>> \o FilterList(common_languages, available_langs, first)

\* variant: English goes first only when it is strictly ahead
AvailabilityPriorityStrict(available_langs) ==
    LET english_indicators == Cardinality({l \in available_langs : StartsWith(l, en)})
        spanish_indicators == Cardinality({l \in available_langs : StartsWith(l, es)})
        priority_order == IF english_indicators > spanish_indicators
                          THEN english_first ELSE spanish_first
    IN FilterList(priority_order, available_langs, None)

\* the availability-based list of the final else branch
AvailabilityPriority(available_langs) ==
    LET english_indicators == Cardinality({l \in available_langs : StartsWith(l, en)})
        spanish_indicators == Cardinality({l \in available_langs : StartsWith(l, es)})
        priority_order == IF english_indicators >= spanish_indicators
                          THEN english_first ELSE spanish_first
    IN FilterList(priority_order, available_langs, None)

\* subtitle_langs before the two `if not subtitle_langs` fallbacks
AutoPriority(available_langs, declared, speech_lang) ==
    IF speech_lang # unknown /\ speech_lang \in available_langs
    THEN SmartPriority(speech_lang, available_langs)
    ELSE IF declared # None /\ declared # <<>>
            /\ declared \in available_langs
    THEN SmartPriority(declared, available_langs)
    ELSE AvailabilityPriority(available_langs)

\* variant: without the final ['es', 'en']
WithFallbacksNoDefault(langs, available_langs) ==
    IF langs # <<>> THEN {langs}
    ELSE Orderings(available_langs, MAX_FALLBACK_LANGS)

\* the values subtitle_langs can have after the two fallbacks
WithFallbacks(langs, available_langs) ==
    IF langs # <<>> THEN {langs}
    ELSE IF available_langs # {}
    THEN Orderings(available_langs, MAX_FALLBACK_LANGS)
    ELSE {<<es, en>>}

\* variant: 'en' appended whatever the requested language
UserPriorityKeepDuplicate(requested) == <<requested, en>>

\* [language, 'en'] if language != 'en' else ['en']
UserPriority(requested) == IF requested # en THEN <<requested, en>> ELSE <<en>>

\* the values subtitle_langs can have at line 223
PriorityLists(requested, available_langs, declared, speech_lang) ==
    IF requested = auto
    THEN WithFallbacks(AutoPriority(available_langs, declared,
                                    speech_lang), available_langs)
    ELSE {UserPriority(requested)}

-----------------------------------------------------------------------------
(* youtube_handler.py: get_youtube_subtitles, the choice of the track file *)

\* variant: every file of the directory counts as a track file
IsSubtitleFileAnyFile(file) == TRUE

\* file.endswith('.vtt') or file.endswith('.srt')
IsSubtitleFile(file) ==
    EndsWith(file, <<".","v","t","t">>) \/ EndsWith(file, <<".","s","r","t">>)

auto_indicators == { <<".","a","u","t","o",".">>,
                     <<"a","u","t","o","-","g","e","n","e","r","a","t","e","d">>,
                     <<"a",".">> }

\* membership in manual_subtitle_files
IsManualFile(file) == ~ \E auto_indicator \in auto_indicators : Contains(file, auto_indicator)

\* membership in auto_subtitle_files
IsAutoFile(file) == ~ IsManualFile(file)

\* the five filename patterns of a language code
LangInFile(lang, file) ==
    \/ Contains(file, <<".">> \o lang \o <<".">>)
    \/ Contains(file, <<"-">> \o lang \o <<".">>)
    \/ Contains(file, <<"_">> \o lang \o <<".">>)
    \/ StartsWith(file, lang \o <<".">>)
    \/ Contains(file, <<".">> \o lang \o <<"-">>)

NoMatch == [found |-> FALSE, file |-> None, lang |-> unknown]

\* variant: the files are tried in turn, each against every language
MatchInGroupFileMajor(file_group, langs) ==
    LET hits == {h \in (1..Len(langs)) \X (1..Len(file_group)) :
                    LangInFile(langs[h[1]], file_group[h[2]])}
        best == CHOOSE h \in hits :
                    \A g \in hits : h[2] < g[2] \/ (h[2] = g[2] /\ h[1] <= g[1])
    IN IF hits = {} THEN NoMatch
       ELSE [found |-> TRUE, file |-> file_group[best[2]], lang |-> langs[best[1]]]

\* for lang in subtitle_langs: for file in file_group: the first match, the
\* earliest language first and for it the earliest file
MatchInGroup(file_group, langs) ==
    LET hits == {h \in (1..Len(langs)) \X (1..Len(file_group)) :
                    LangInFile(langs[h[1]], file_group[h[2]])}
        best == CHOOSE h \in hits :
                    \A g \in hits : h[1] < g[1] \/ (h[1] = g[1] /\ h[2] <= g[2])
    IN IF hits = {} THEN NoMatch
       ELSE [found |-> TRUE, file |-> file_group[best[2]], lang |-> langs[best[1]]]

\* variant: the languages are tried over all the files, manual files first
GroupMatchLanguageMajor(manual_subtitle_files, auto_subtitle_files, langs) ==
    MatchInGroup(manual_subtitle_files \o auto_subtitle_files, langs)

\* for file_group in [manual_subtitle_files, auto_subtitle_files]
GroupMatch(manual_subtitle_files, auto_subtitle_files, langs) ==
    LET manual == MatchInGroup(manual_subtitle_files, langs)
    IN IF manual.found THEN manual
       ELSE MatchInGroup(auto_subtitle_files, langs)

ContainsAny(s, patterns) == \E p \in patterns : Contains(s, p)

\* detected_language of a file that no language of the list matches
FilenameLanguage(filename, langs) ==
    LET tagged == MatchInGroup(<<filename>>, langs)
        lowered == Lower(filename)
    IN IF tagged.found THEN tagged.lang
       ELSE IF ContainsAny(lowered, { <<"s","p","a","n","i","s","h">>,
                                      <<"e","s","p","a","n~","o","l">>, <<"e","s","-">> })
       THEN es
       ELSE IF ContainsAny(lowered, { <<"e","n","g","l","i","s","h">>, <<"e","n","-">> })
       THEN en
       ELSE IF ContainsAny(lowered, { <<"f","r","e","n","c","h">>,
                                      <<"f","r","a","n","c,","a","i","s">>, <<"f","r","-">> })
       THEN fr
       ELSE IF langs # <<>> THEN langs[1] ELSE en

\* variant: the fallback takes the first file listed, whatever its group
SelectTrackFirstListed(files, langs) ==
    LET manual_subtitle_files == SelectSeq(files, IsManualFile)
        auto_subtitle_files == SelectSeq(files, IsAutoFile)
        match == GroupMatch(manual_subtitle_files, auto_subtitle_files, langs)
    IN IF match.found
       THEN [best_subtitle |-> match.file, detected_language |-> match.lang]
       ELSE [best_subtitle |-> files[1],
             detected_language |-> FilenameLanguage(files[1], langs)]

\* best_subtitle and detected_language at line 306, for a non-empty
\* subtitle_files
SelectTrack(files, langs) ==
    LET manual_subtitle_files == SelectSeq(files, IsManualFile)
        auto_subtitle_files == SelectSeq(files, IsAutoFile)
        match == GroupMatch(manual_subtitle_files, auto_subtitle_files, langs)
        preferred_files == IF manual_subtitle_files # <<>>
                           THEN manual_subtitle_files ELSE auto_subtitle_files
    IN IF match.found
       THEN [best_subtitle |-> match.file, detected_language |-> match.lang]
       ELSE [best_subtitle |-> preferred_files[1],
             detected_language |-> FilenameLanguage(preferred_files[1], langs)]

-----------------------------------------------------------------------------
(* youtube_handler.py: detect_language_from_content                        *)

\* len(text) < 50 gives 'unknown'
MIN_CONTENT_LENGTH == 50

\* scores[detected_lang] >= 2
MIN_WORD_MATCHES == 2

english_words == {
    <<"t","h","e">>, <<"a","n","d">>, <<"t","h","a","t">>,
    <<"h","a","v","e">>, <<"f","o","r">>, <<"n","o","t">>,
    <<"w","i","t","h">>, <<"y","o","u">>, <<"t","h","i","s">>,
    <<"b","u","t">>, <<"h","i","s">>, <<"f","r","o","m">>,
    <<"t","h","e","y">>, <<"s","h","e">>, <<"h","e","r">>,
    <<"b","e","e","n">>, <<"t","h","a","n">>, <<"i","t","s">>,
    <<"w","h","o">>, <<"d","i","d">> }

spanish_words == {
    <<"q","u","e">>, <<"u","n","a">>, <<"c","o","n">>, <<"p","a","r","a">>,
    <<"p","o","r">>, <<"s","o","n">>, <<"c","o","m","o">>,
    <<"e","s","t","e">>, <<"e","s","t","a">>, <<"p","e","r","o">>,
    <<"s","u","s">>, <<"d","e","s","d","e">>, <<"e","l","l","o","s">>,
    <<"e","l","l","a">>, <<"s","i","d","o">>, <<"m","a'","s">>,
    <<"q","u","i","e","n">>, <<"h","i","z","o">> }

french_words == {
    <<"q","u","e">>, <<"u","n","e">>, <<"a","v","e","c">>,
    <<"p","o","u","r">>, <<"p","a","r">>, <<"s","o","n","t">>,
    <<"c","o","m","m","e">>, <<"c","e","t","t","e">>, <<"m","a","i","s">>,
    <<"s","e","s">>, <<"d","e","p","u","i","s">>, <<"i","l","s">>,
    <<"e","l","l","e">>, <<"e'","t","e'">>, <<"p","l","u","s">>,
    <<"q","u","i">>, <<"f","a","i","t">> }

\* sum(1 for word in words if f' {word} ' in text_lower)
Score(words, text_lower) ==
    Cardinality({w \in words : Contains(text_lower, <<" ">> \o w \o <<" ">>)})

detect_language_from_content(text) ==
    LET text_lower == Lower(text)
        english_score == Score(english_words, text_lower)
        spanish_score == Score(spanish_words, text_lower)
        french_score == Score(french_words, text_lower)
        \* max(scores, key=scores.get): the first of en, es, fr with the top score
        detected_lang == IF english_score >= spanish_score /\ english_score >= french_score
                         THEN [lang |-> en, score |-> english_score]
                         ELSE IF spanish_score >= french_score
                         THEN [lang |-> es, score |-> spanish_score]
                         ELSE [lang |-> fr, score |-> french_score]
    IN IF Len(text) < MIN_CONTENT_LENGTH THEN unknown
       ELSE IF detected_lang.score >= MIN_WORD_MATCHES THEN detected_lang.lang
       ELSE unknown

\* variant: the content analysis always decides when no speech language does
FinalLanguageContentAlways(filename_lang, speech_lang, cleaned) ==
    IF speech_lang # unknown THEN speech_lang
    ELSE detect_language_from_content(cleaned)

\* detected_language at line 337
FinalLanguage(filename_lang, speech_lang, cleaned) ==
    IF speech_lang # unknown THEN speech_lang
    ELSE LET content_language == detect_language_from_content(cleaned)
         IN IF content_language # unknown THEN content_language
            ELSE filename_lang

-----------------------------------------------------------------------------
(* audio_processing.py: transcribe_audio_file and process_large_audio      *)

CHUNK_DURATION_MS == 60000
LARGE_FILE_THRESHOLD == 120

\* variant: a file of exactly the threshold duration is chunked too
IsLargeFileInclusive(ms) == ms >= LARGE_FILE_THRESHOLD * 1000

\* info['duration'] > LARGE_FILE_THRESHOLD, with duration = len(audio) / 1000
IsLargeFile(ms) == ms > LARGE_FILE_THRESHOLD * 1000

\* len(make_chunks(audio, chunk_duration_ms)): the last chunk may be shorter
ChunkCount(ms) == (ms + CHUNK_DURATION_MS - 1) \div CHUNK_DURATION_MS

Min(a, b) == IF a <= b THEN a ELSE b

\* make_chunks(audio, chunk_duration_ms) of pydub.utils: the slices
\* audio[i * chunk_length : (i + 1) * chunk_length] for i below
\* ceil(len(audio) / chunk_length); a slice ends at len(audio) at the latest
make_chunks(audio_len, chunk_length) ==
    [i \in 1..((audio_len + chunk_length - 1) \div chunk_length) |->
        <<(i - 1) * chunk_length, Min(i * chunk_length, audio_len)>>]

\* variant: only the text of the last chunk is shown
current_text_last_only(texts) == texts[Len(texts)]

\* current_text = ' '.join(transcriptions)
current_text(texts) == Join(texts, <<" ">>)

\* language if language != 'auto' else None: the argument that
\* handle_transcription_process gives to transcribe_audio_file and
\* transcribe_audio
LanguageArgument(selection) == IF selection # auto THEN selection ELSE None

\* variant: the language keyword is forgotten
TranscribeLanguageForgotten(language_param) == None

\* the language that model.transcribe receives: none when the parameter is
\* 'auto' (the call has no language keyword, which reads as None), else
\* language=language
TranscribeLanguage(language_param) ==
    IF language_param = auto THEN None ELSE language_param

\* a call of model.transcribe: on the whole file, or on the file of a chunk
WholeFile(language_param) ==
    [kind |-> "whole", index |-> 0, language |-> TranscribeLanguage(language_param)]
ChunkFile(i, language_param) ==
    [kind |-> "chunk", index |-> i, language |-> TranscribeLanguage(language_param)]

\* variant: the temporary copy is removed only after a successful return
MediaFileLeftOnError(has_raised) == has_raised

\* whether the temporary copy of the media exists after the finally clause
\* that follows transcribe_audio_file (os.unlink in both callers)
MediaFileAfterAttempt(has_raised) == FALSE

\* variant: a failing chunk ends the loop and the texts so far are returned
ChunkFailureKeepsPartial(done) == [raised |-> FALSE, value |-> Join(done, <<" ">>)]

\* an exception in the body of the chunk loop, after the chunks in done:
\* process_large_audio has no handler, the exception leaves it and
\* transcribe_audio_file without a value
ChunkFailure(done) == [raised |-> TRUE, value |-> None]

-----------------------------------------------------------------------------
(* The state of each component before it runs                              *)

\* ret before the call returns
NotReturned == [text |-> None, found |-> FALSE, lang |-> None]

\* return None, False, 'none'
NoneTriple == [text |-> None, found |-> FALSE, lang |-> none]

NoDetection == [language |-> unknown, confidence |-> 0]

IdleClean ==
    /\ subtitle_content = <<>>
    /\ clean_lines = <<>>
    /\ cleaned_text = <<>>
    /\ recleaned_text = <<>>
    /\ clean_pc = "idle"

IdleCaption ==
    /\ language = auto
    /\ use_whisper_detection = TRUE
    /\ speech_language = unknown
    /\ detection = NoDetection
    /\ whisper_detected_lang = unknown
    /\ video_language = None
    /\ subtitles = {}
    /\ automatic_captions = {}
    /\ subtitle_langs = <<>>
    /\ subtitle_langs_again = <<>>
    /\ dir_files = <<>>
    /\ subtitle_files = <<>>
    /\ best_subtitle = None
    /\ detected_language = unknown
    /\ track_read = FALSE
    /\ failures = {}
    /\ ret = NotReturned
    /\ raised = FALSE
    /\ cap_pc = "idle"

\* audio_info is the set of the durations stored: empty when none is;
\* has_subtitles is the entry of the cached video info of the URL (FALSE
\* also when there is no video info)
\* the values of the URL field: empty, and two valid URLs
NoUrl == ""
FirstUrl == "https://youtu.be/first"
SecondUrl == "https://youtu.be/second"

NoSession ==
    [transcription |-> None, audio_info |-> {}, transcription_source |-> None,
     whisper_transcription |-> None, has_both_transcriptions |-> FALSE,
     transcribing |-> FALSE, manual_whisper_requested |-> FALSE,
     youtube_subtitles_shown |-> FALSE, has_subtitles |-> FALSE,
     locked_language |-> auto, youtube_transcription |-> None,
     stored_keys |-> {}, youtube_url_field |-> NoUrl]

IdleTranscribe ==
    /\ audio_source = "none"
    /\ audio_ms = 0
    /\ transcriptions = <<>>
    /\ live_text = <<>>
    /\ tr_ret = None
    /\ tr_raised = FALSE
    /\ tr_failures = {}
    /\ session_state = NoSession
    /\ session_before = NoSession
    /\ tr_pc = "idle"
    /\ chunks = <<>>
    /\ invocations = <<>>
    /\ media_file = FALSE
    /\ chunk_files = {}

\* the identifiers of the speech models used here: the one the language
\* detection loads, and another choice of the settings
ModelNames == {"base", "large-v3-turbo"}

IdleCache ==
    /\ model_cache = {}
    /\ cache_lock = 0
    /\ loads = [name \in ModelNames |-> 0]
    /\ requests = <<>>

-----------------------------------------------------------------------------
(* SpecClean: clean_subtitle_text applied to a caption payload, and then   *)
(* applied again to its own result                                         *)

\* the most lines a generated caption payload has
MaxLines == 3

TimingLine1 ==
    <<"0","0",":","0","0",":","0","1",".","0","0","0"," ","-","-",">"," ",
      "0","0",":","0","0",":","0","2",".","0","0","0">>
TimingLine2 ==
    <<"0","0",":","0","0",":","0","2",".","0","0","0"," ","-","-",">"," ",
      "0","0",":","0","0",":","0","3",".","0","0","0">>
HelloWorld == <<"H","e","l","l","o"," ","w","o","r","l","d">>

\* the lines the generated payloads are made of
CaptionLines == {
    HelloWorld,
    <<"h","e","l","l","o"," ","w","o","r","l","d","!">>,
    <<"H","e","l","l","o">>,
    <<"H","e","l","l","o"," ","[","M","u","s","i","c","]"," ","w","o","r","l","d">>,
    <<"<","c",">","H","i","<","/","c",">"," ","[","x","]">>,
    <<"W","E","B","V","T","T">>,
    <<"K","i","n","d",":"," ","c","a","p","t","i","o","n","s">>,
    <<"L","a","n","g","u","a","g","e",":"," ","e","n">>,
    <<"N","O","T","E"," ","c","u","e">>,
    TimingLine1,
    <<"1","2","3">>,
    <<"0","0",":","0","0",":","0","5"," ","g","o"," ","o","n">>,
    <<"a","b">> }

\* Example 1 of the specification
Example1 ==
    Join(<< <<"W","E","B","V","T","T">>, <<>>, TimingLine1, HelloWorld, <<>>,
            TimingLine2, HelloWorld, <<>> >>, <<"\n">>)

CaptionPayloads ==
    {Join(ls, <<"\n">>) : ls \in UNION {[1..n -> CaptionLines] : n \in 0..MaxLines}}
        \cup {Example1}

InitClean ==
    /\ subtitle_content \in CaptionPayloads
    /\ clean_lines = <<>>
    /\ cleaned_text = <<>>
    /\ recleaned_text = <<>>
    /\ clean_pc = "start"
    /\ IdleCaption
    /\ IdleTranscribe
    /\ IdleCache

\* cleaned_text = clean_subtitle_text(subtitle_content)
Clean ==
    /\ clean_pc = "start"
    /\ clean_lines' = CleanLines(subtitle_content)
    /\ cleaned_text' = clean_subtitle_text(subtitle_content)
    /\ clean_pc' = "cleaned"
    /\ UNCHANGED <<subtitle_content, recleaned_text, captionVars>>
    /\ UNCHANGED <<transcribeVars, cacheVars>>

\* clean_subtitle_text(cleaned_text)
Reclean ==
    /\ clean_pc = "cleaned"
    /\ recleaned_text' = clean_subtitle_text(cleaned_text)
    /\ clean_pc' = "recleaned"
    /\ UNCHANGED <<subtitle_content, clean_lines, cleaned_text, captionVars>>
    /\ UNCHANGED <<transcribeVars, cacheVars>>

NextClean == Clean \/ Reclean

SpecClean == InitClean /\ [][NextClean]_vars

-----------------------------------------------------------------------------
(* get_youtube_subtitles as a process: its steps and the failures of each  *)

\* variant: the metadata block without its handler
CaughtExceptMetadata(step) == step \in {"detect", "download", "read", "clean"}

\* the steps whose exceptions an except clause of youtube_handler.py catches:
\* "detect" by detect_language_with_whisper's own handler, "metadata" by the
\* handler of the metadata block, the others by the handler around the
\* download, the choice of the file, the read and the cleaning
Caught(step) == step \in {"detect", "metadata", "download", "read", "clean"}

\* an exception that no handler catches leaves the function
Propagate ==
    /\ raised' = TRUE
    /\ cap_pc' = "done"
    /\ UNCHANGED ret

\* except Exception: pass, then return None, False, 'none'
ReturnNone ==
    /\ ret' = NoneTriple
    /\ cap_pc' = "done"
    /\ UNCHANGED raised

\* language != 'auto' or not use_whisper_detection: no speech detection
SkipDetection ==
    /\ cap_pc = "detect"
    /\ ~ (language = auto /\ use_whisper_detection)
    /\ cap_pc' = "metadata"
    /\ UNCHANGED <<cleanVars, inputVars, detectVars, metadataVars, subtitle_langs,
                   subtitle_langs_again, trackVars, failures, ret, raised>>
    /\ UNCHANGED <<transcribeVars, cacheVars>>

\* variant: the detection runs for every requested language
WhisperDetectsAnyRequest(confidences) ==
    /\ cap_pc = "detect"
    /\ use_whisper_detection
    /\ \E c \in confidences :
        /\ detection' = [language |-> speech_language, confidence |-> c]
        /\ whisper_detected_lang' = WhisperVerdict(speech_language, c)
    /\ cap_pc' = "metadata"
    /\ UNCHANGED <<cleanVars, inputVars, metadataVars, subtitle_langs,
                   subtitle_langs_again, trackVars, failures, ret, raised>>
    /\ UNCHANGED <<transcribeVars, cacheVars>>

\* detect_language_with_whisper reaches model.detect_language
WhisperDetects(confidences) ==
    /\ cap_pc = "detect"
    /\ language = auto /\ use_whisper_detection
    /\ \E c \in confidences :
        /\ detection' = [language |-> speech_language, confidence |-> c]
        /\ whisper_detected_lang' = WhisperVerdict(speech_language, c)
    /\ cap_pc' = "metadata"
    /\ UNCHANGED <<cleanVars, inputVars, metadataVars, subtitle_langs,
                   subtitle_langs_again, trackVars, failures, ret, raised>>
    /\ UNCHANGED <<transcribeVars, cacheVars>>

\* detect_language_with_whisper finds no .mp3 file: return 'unknown'
WhisperNoAudioFile ==
    /\ cap_pc = "detect"
    /\ language = auto /\ use_whisper_detection
    /\ whisper_detected_lang' = unknown
    /\ cap_pc' = "metadata"
    /\ UNCHANGED <<cleanVars, inputVars, detection, metadataVars, subtitle_langs,
                   subtitle_langs_again, trackVars, failures, ret, raised>>
    /\ UNCHANGED <<transcribeVars, cacheVars>>

\* the download, the audio decoding, the model load or the detection raises
WhisperDetectionFails ==
    /\ cap_pc = "detect"
    /\ language = auto /\ use_whisper_detection
    /\ failures' = failures \cup {"detect"}
    /\ IF Caught("detect")
       THEN /\ whisper_detected_lang' = unknown
            /\ cap_pc' = "metadata"
            /\ UNCHANGED <<ret, raised>>
       ELSE Propagate /\ UNCHANGED whisper_detected_lang
    /\ UNCHANGED <<cleanVars, inputVars, detection, metadataVars, subtitle_langs,
                   subtitle_langs_again, trackVars>>
    /\ UNCHANGED <<transcribeVars, cacheVars>>

\* ydl.extract_info(url, download=False) returns the video's metadata
MetadataFetched(cases) ==
    /\ cap_pc = "metadata"
    /\ \E c \in cases :
        /\ video_language' = c.language
        /\ subtitles' = c.subtitles
        /\ automatic_captions' = c.automatic_captions
    /\ cap_pc' = "priority"
    /\ UNCHANGED <<cleanVars, inputVars, detectVars, subtitle_langs,
                   subtitle_langs_again, trackVars, failures, ret, raised>>
    /\ UNCHANGED <<transcribeVars, cacheVars>>

\* the metadata fetch raises
MetadataFails ==
    /\ cap_pc = "metadata"
    /\ failures' = failures \cup {"metadata"}
    /\ IF Caught("metadata")
       THEN /\ video_language' = None
            /\ subtitles' = {}
            /\ automatic_captions' = {}
            /\ cap_pc' = "priority"
            /\ UNCHANGED <<ret, raised>>
       ELSE Propagate /\ UNCHANGED metadataVars
    /\ UNCHANGED <<cleanVars, inputVars, detectVars, subtitle_langs,
                   subtitle_langs_again, trackVars>>
    /\ UNCHANGED <<transcribeVars, cacheVars>>

\* the construction of subtitle_langs
BuildPriority ==
    /\ cap_pc = "priority"
    /\ subtitle_langs' \in PriorityLists(language, subtitles \cup automatic_captions,
                                         video_language, whisper_detected_lang)
    /\ cap_pc' = "download"
    /\ UNCHANGED <<cleanVars, inputVars, detectVars, metadataVars,
                   subtitle_langs_again, trackVars, failures, ret, raised>>
    /\ UNCHANGED <<transcribeVars, cacheVars>>

\* the same construction in a second call with identical inputs
BuildPriorityAgain ==
    /\ cap_pc = "download"
    /\ subtitle_langs_again' \in PriorityLists(language, subtitles \cup automatic_captions,
                                               video_language, whisper_detected_lang)
    /\ cap_pc' = "compared"
    /\ UNCHANGED <<cleanVars, inputVars, detectVars, metadataVars,
                   subtitle_langs, trackVars, failures, ret, raised>>
    /\ UNCHANGED <<transcribeVars, cacheVars>>

\* ydl.extract_info(url, download=True) and os.listdir(temp_dir)
DownloadCaptions(listings) ==
    /\ cap_pc = "download"
    /\ dir_files' \in listings
    /\ cap_pc' = "select"
    /\ UNCHANGED <<cleanVars, inputVars, detectVars, metadataVars, subtitle_langs,
                   subtitle_langs_again, subtitle_files, best_subtitle,
                   detected_language, track_read, failures, ret, raised>>
    /\ UNCHANGED <<transcribeVars, cacheVars>>

\* the caption download raises
DownloadFails ==
    /\ cap_pc = "download"
    /\ failures' = failures \cup {"download"}
    /\ IF Caught("download") THEN ReturnNone ELSE Propagate
    /\ UNCHANGED <<cleanVars, inputVars, detectVars, metadataVars, subtitle_langs,
                   subtitle_langs_again, trackVars>>
    /\ UNCHANGED <<transcribeVars, cacheVars>>

\* the choice of best_subtitle among the .vtt and .srt files
SelectSubtitle ==
    /\ cap_pc = "select"
    /\ LET files == SelectSeq(dir_files, IsSubtitleFile)
           chosen == SelectTrack(files, subtitle_langs)
       IN /\ subtitle_files' = files
          /\ IF files = <<>>
             THEN ReturnNone /\ UNCHANGED <<best_subtitle, detected_language>>
             ELSE /\ best_subtitle' = chosen.best_subtitle
                  /\ detected_language' = chosen.detected_language
                  /\ cap_pc' = "read"
                  /\ UNCHANGED <<ret, raised>>
    /\ UNCHANGED <<cleanVars, inputVars, detectVars, metadataVars, subtitle_langs,
                   subtitle_langs_again, dir_files, track_read, failures>>
    /\ UNCHANGED <<transcribeVars, cacheVars>>

\* subtitle_content = f.read()
ReadTrack(contents) ==
    /\ cap_pc = "read"
    /\ subtitle_content' \in contents
    /\ track_read' = TRUE
    /\ cap_pc' = "clean"
    /\ UNCHANGED <<clean_lines, cleaned_text, recleaned_text, clean_pc, inputVars,
                   detectVars, metadataVars, subtitle_langs, subtitle_langs_again,
                   dir_files, subtitle_files, best_subtitle, detected_language,
                   failures, ret, raised>>
    /\ UNCHANGED <<transcribeVars, cacheVars>>

\* open or read raises
ReadFails ==
    /\ cap_pc = "read"
    /\ failures' = failures \cup {"read"}
    /\ IF Caught("read") THEN ReturnNone ELSE Propagate
    /\ UNCHANGED <<cleanVars, inputVars, detectVars, metadataVars, subtitle_langs,
                   subtitle_langs_again, trackVars>>
    /\ UNCHANGED <<transcribeVars, cacheVars>>

\* cleaned_text = clean_subtitle_text(subtitle_content)
CleanTrack ==
    /\ cap_pc = "clean"
    /\ cleaned_text' = clean_subtitle_text(subtitle_content)
    /\ cap_pc' = "finish"
    /\ UNCHANGED <<subtitle_content, clean_lines, recleaned_text, clean_pc, inputVars,
                   detectVars, metadataVars, subtitle_langs, subtitle_langs_again,
                   trackVars, failures, ret, raised>>
    /\ UNCHANGED <<transcribeVars, cacheVars>>

\* clean_subtitle_text raises
CleanFails ==
    /\ cap_pc = "clean"
    /\ failures' = failures \cup {"clean"}
    /\ IF Caught("clean") THEN ReturnNone ELSE Propagate
    /\ UNCHANGED <<cleanVars, inputVars, detectVars, metadataVars, subtitle_langs,
                   subtitle_langs_again, trackVars>>
    /\ UNCHANGED <<transcribeVars, cacheVars>>

\* the final language and return cleaned_text, True, detected_language
ReturnSubtitles ==
    /\ cap_pc = "finish"
    /\ detected_language' = FinalLanguage(detected_language, whisper_detected_lang,
                                          cleaned_text)
    /\ ret' = [text |-> cleaned_text, found |-> TRUE, lang |-> detected_language']
    /\ cap_pc' = "done"
    /\ UNCHANGED <<cleanVars, inputVars, detectVars, metadataVars, subtitle_langs,
                   subtitle_langs_again, dir_files, subtitle_files, best_subtitle,
                   track_read, failures, raised>>
    /\ UNCHANGED <<transcribeVars, cacheVars>>

-----------------------------------------------------------------------------
(* SpecMarkup: clean_subtitle_text applied to payloads put together from   *)
(* markup fragments: tags that are nested, malformed, split across lines   *)
(* or wrapped around bracketed and parenthetical content                   *)

\* the most fragments of a payload
MaxTokens == 4

CaptionText == <<"c","a","p","t","i","o","n"," ","t","e","x","t">>

MarkupTokens == {
    <<"<">>, <<">">>, <<"<","b">>, <<"[">>, <<"]">>, <<"(">>, <<")">>,
    <<"\n">>, CaptionText }

MarkupPayloads ==
    {Join(ts, <<>>) : ts \in UNION {[1..n -> MarkupTokens] : n \in 1..MaxTokens}}

InitMarkup ==
    /\ subtitle_content \in MarkupPayloads
    /\ clean_lines = <<>>
    /\ cleaned_text = <<>>
    /\ recleaned_text = <<>>
    /\ clean_pc = "start"
    /\ IdleCaption
    /\ IdleTranscribe
    /\ IdleCache

SpecMarkup == InitMarkup /\ [][NextClean]_vars

-----------------------------------------------------------------------------
(* The inputs and the answers of the platform and of the speech model      *)

ja == <<"j","a">>
ko == <<"k","o">>
en_US == <<"e","n","-","U","S">>
es_419 == <<"e","s","-","4","1","9">>

\* language codes outside the common six
ExoticCodes == <<ja, ko, <<"z","h">>, <<"r","u">>, <<"a","r">>, <<"h","i">>,
                 <<"t","r">>, <<"n","l">>, <<"s","v">> >>

\* the values of the argument language
RequestedLanguages == {auto, en, fr}

\* what the speech model can detect, with its confidence in hundredths
WhisperLanguages == {en, es, ja}
Confidences == {50, 90}

\* the declared language of a video
DeclaredLanguages == {None, en, ja}

Metadata(declared, manual, automatic) ==
    [language |-> declared, subtitles |-> manual, automatic_captions |-> automatic]

\* the most files os.listdir returns
MaxFiles == 2

FileNames == { <<"T",".","e","n",".","v","t","t">>,
               <<"T",".","j","a",".","v","t","t">>,
               <<"T",".","f","r",".","s","r","t">>,
               <<"T",".","v","t","t">>,
               <<"T",".","j","p","g">> }

\* os.listdir(temp_dir): any files in any order
Listings == UNION {Orderings(FileNames, n) : n \in 0..MaxFiles}

EnglishTrack ==
    <<"I"," ","t","h","i","n","k"," ","t","h","a","t"," ","y","o","u"," ",
      "h","a","v","e"," ","t","h","e"," ","b","e","s","t"," ","o","f"," ",
      "t","h","i","s"," ","a","n","d"," ","t","h","e","y"," ","d","i","d"," ",
      "n","o","t">>

\* a track with a header, a timing line and one spoken line
TimedTrack == Join(<<<<"W","E","B","V","T","T">>, TimingLine1, HelloWorld>>, <<"\n">>)

\* the contents of a track file
TrackContents == {TimedTrack, EnglishTrack}

-----------------------------------------------------------------------------
(* SpecCaption: one call of get_youtube_subtitles                          *)

CaptionMetadata ==
    { Metadata(None, {}, {}), Metadata(en, {en}, {en, es}),
      Metadata(ja, {ko}, {ja, en}) }

InitCaption ==
    /\ IdleClean
    /\ IdleTranscribe
    /\ IdleCache
    /\ language \in RequestedLanguages
    /\ use_whisper_detection \in BOOLEAN
    /\ speech_language \in WhisperLanguages
    /\ detection = NoDetection
    /\ whisper_detected_lang = unknown
    /\ video_language = None
    /\ subtitles = {}
    /\ automatic_captions = {}
    /\ subtitle_langs = <<>>
    /\ subtitle_langs_again = <<>>
    /\ dir_files = <<>>
    /\ subtitle_files = <<>>
    /\ best_subtitle = None
    /\ detected_language = unknown
    /\ track_read = FALSE
    /\ failures = {}
    /\ ret = NotReturned
    /\ raised = FALSE
    /\ cap_pc = "detect"

NextCaption ==
    \/ SkipDetection
    \/ WhisperDetects(Confidences)
    \/ WhisperNoAudioFile
    \/ WhisperDetectionFails
    \/ MetadataFetched(CaptionMetadata)
    \/ MetadataFails
    \/ BuildPriority
    \/ DownloadCaptions(Listings)
    \/ DownloadFails
    \/ SelectSubtitle
    \/ ReadTrack(TrackContents)
    \/ ReadFails
    \/ CleanTrack
    \/ CleanFails
    \/ ReturnSubtitles

SpecCaption == InitCaption /\ [][NextCaption]_vars

-----------------------------------------------------------------------------
(* SpecSelect: get_youtube_subtitles without the speech detection, on      *)
(* directories that hold several files per group and per language          *)

\* manual files for en (two) and fr, auto-generated files for en and fr, a
\* file without a language and one ('a.' is in its name) for ja
SelectFileNames == {
    <<"T",".","e","n",".","v","t","t">>,
    <<"T","-","e","n",".","s","r","t">>,
    <<"T",".","f","r",".","v","t","t">>,
    <<"T",".","a","u","t","o",".","e","n",".","v","t","t">>,
    <<"T",".","a","u","t","o",".","f","r",".","v","t","t">>,
    <<"T",".","v","t","t">>,
    <<"T",".","j","a",".","v","t","t">> }

\* os.listdir(temp_dir): any files in any order
SelectListings == UNION {Orderings(SelectFileNames, n) : n \in 0..MaxFiles}

SelectMetadata == { Metadata(None, {}, {}), Metadata(fr, {fr}, {en, fr}) }

SelectContents == {TimedTrack}

InitSelect ==
    /\ IdleClean
    /\ IdleTranscribe
    /\ IdleCache
    /\ language \in RequestedLanguages
    /\ use_whisper_detection = FALSE
    /\ speech_language = en
    /\ detection = NoDetection
    /\ whisper_detected_lang = unknown
    /\ video_language = None
    /\ subtitles = {}
    /\ automatic_captions = {}
    /\ subtitle_langs = <<>>
    /\ subtitle_langs_again = <<>>
    /\ dir_files = <<>>
    /\ subtitle_files = <<>>
    /\ best_subtitle = None
    /\ detected_language = unknown
    /\ track_read = FALSE
    /\ failures = {}
    /\ ret = NotReturned
    /\ raised = FALSE
    /\ cap_pc = "detect"

NextSelect ==
    \/ SkipDetection
    \/ MetadataFetched(SelectMetadata)
    \/ MetadataFails
    \/ BuildPriority
    \/ DownloadCaptions(SelectListings)
    \/ DownloadFails
    \/ SelectSubtitle
    \/ ReadTrack(SelectContents)
    \/ ReadFails
    \/ CleanTrack
    \/ CleanFails
    \/ ReturnSubtitles

SpecSelect == InitSelect /\ [][NextSelect]_vars

-----------------------------------------------------------------------------
(* SpecPriority: get_youtube_subtitles up to the construction of the       *)
(* priority list, over a wider family of metadata                          *)

\* the number of uncommon language codes a video can offer
NumExotic == 7

Exotics == {ExoticCodes[i] : i \in 1..NumExotic}

PriorityMetadata ==
    {Metadata(d, m, a) :
        d \in DeclaredLanguages,
        m \in { {}, {en}, {es, fr} },
        a \in { {}, {en, es}, {ja, ko}, {en, es, es_419}, {es, en_US},
               {ja, en, de} }}
    \cup {Metadata(None, {}, Exotics)}

NextPriority ==
    \/ SkipDetection
    \/ WhisperDetects(Confidences)
    \/ WhisperNoAudioFile
    \/ WhisperDetectionFails
    \/ MetadataFetched(PriorityMetadata)
    \/ MetadataFails
    \/ BuildPriority

SpecPriority == InitCaption /\ [][NextPriority]_vars

-----------------------------------------------------------------------------
(* SpecRerun: the priority list built twice from the same inputs           *)

RerunMetadata ==
    { Metadata(None, {}, {}), Metadata(en, {en}, {en, es}),
      Metadata(None, {}, {ja, ko}), Metadata(ja, {ko}, {<<"z","h">>}),
      Metadata(None, {fr}, {de}) }

NextRerun ==
    \/ SkipDetection
    \/ WhisperDetects(Confidences)
    \/ WhisperNoAudioFile
    \/ WhisperDetectionFails
    \/ MetadataFetched(RerunMetadata)
    \/ MetadataFails
    \/ BuildPriority
    \/ BuildPriorityAgain

SpecRerun == InitCaption /\ [][NextRerun]_vars

-----------------------------------------------------------------------------
(* SpecTranscribe: one run of handle_transcription_process with            *)
(* transcribing set: the audio is fetched, transcribe_audio_file runs,     *)
(* the result is stored or the error is handled                            *)

\* the most chunks an audio has
MaxChunks == 3

\* lengths from half a chunk to MaxChunks chunks, in steps of half a chunk
AudioLengths ==
    {(n * CHUNK_DURATION_MS) \div 2 : n \in 1..(2 * MaxChunks)}
        \cup {LARGE_FILE_THRESHOLD * 1000 + 1}

\* result['text'] of a recognition
ChunkTexts == { <<"h","i">>, <<"y","o","u">> }

\* the entries of the language selectbox that the runs use
TranscriptionLanguages == {auto, es}

OldText == <<"o","l","d">>
YouTubeSubtitles == <<"Y","o","u","T","u","b","e">>
OpenAIWhisper == <<"W","h","i","s","p","e","r">>

\* the session when the run starts: a first transcription, one after an
\* earlier transcription, and a regeneration of fetched subtitles (the
\* Regenerate button deletes the active transcription before the run)
SessionsBefore ==
    { [NoSession EXCEPT !.transcribing = TRUE, !.locked_language = selection] :
          selection \in TranscriptionLanguages }
    \cup
    { [NoSession EXCEPT !.transcribing = TRUE, !.transcription = OldText,
                        !.audio_info = {0}, !.transcription_source = OpenAIWhisper,
                        !.locked_language = es],
      [NoSession EXCEPT !.transcribing = TRUE, !.manual_whisper_requested = TRUE,
                        !.has_subtitles = TRUE, !.locked_language = auto] }

InitTranscribe ==
    /\ IdleClean
    /\ IdleCaption
    /\ IdleCache
    /\ audio_source \in {"youtube", "upload"}
    /\ audio_ms \in AudioLengths
    /\ transcriptions = <<>>
    /\ live_text = <<>>
    /\ tr_ret = None
    /\ tr_raised = FALSE
    /\ tr_failures = {}
    /\ session_state \in SessionsBefore
    /\ session_before = session_state
    /\ tr_pc = "fetch"
    /\ chunks = <<>>
    /\ invocations = <<>>
    /\ media_file = FALSE
    /\ chunk_files = {}

\* an exception leaves transcribe_audio_file at the given step, and the
\* finally clause of the caller runs
Raise(step) ==
    /\ tr_failures' = tr_failures \cup {step}
    /\ tr_raised' = TRUE
    /\ media_file' = MediaFileAfterAttempt(TRUE)
    /\ tr_pc' = "raised"
    /\ UNCHANGED <<cleanVars, captionVars, cacheVars, audio_source, audio_ms, transcriptions,
                   live_text, tr_ret, session_state, session_before, chunks>>

\* download_youtube_audio returned and the audio is in a temporary file
DownloadAudio ==
    /\ tr_pc = "fetch"
    /\ audio_source = "youtube"
    /\ media_file' = TRUE
    /\ tr_pc' = "load"
    /\ UNCHANGED <<cleanVars, captionVars, cacheVars, audio_source, audio_ms, transcriptions,
                   live_text, tr_ret, tr_raised, tr_failures, session_state,
                   session_before, chunks, invocations, chunk_files>>

\* download_youtube_audio raises: the inner handler resets transcribing
DownloadAudioFails ==
    /\ tr_pc = "fetch"
    /\ audio_source = "youtube"
    /\ tr_failures' = tr_failures \cup {"download"}
    /\ session_state' = [session_state EXCEPT !.transcribing = FALSE]
    /\ tr_pc' = "rerun"
    /\ UNCHANGED <<cleanVars, captionVars, cacheVars, audio_source, audio_ms, transcriptions,
                   live_text, tr_ret, tr_raised, session_before, diskVars>>

\* transcribe_audio writes the uploaded file to a temporary file
SaveUpload ==
    /\ tr_pc = "fetch"
    /\ audio_source = "upload"
    /\ media_file' = TRUE
    /\ tr_pc' = "load"
    /\ UNCHANGED <<cleanVars, captionVars, cacheVars, audio_source, audio_ms, transcriptions,
                   live_text, tr_ret, tr_raised, tr_failures, session_state,
                   session_before, chunks, invocations, chunk_files>>

\* model = load_whisper_model(model_name)
LoadModel ==
    /\ tr_pc = "load"
    /\ tr_pc' = "probe"
    /\ UNCHANGED <<cleanVars, captionVars, cacheVars, audio_source, audio_ms, transcriptions,
                   live_text, tr_ret, tr_raised, tr_failures, session_state,
                   session_before, diskVars>>

LoadModelFails ==
    /\ tr_pc = "load"
    /\ Raise("load")
    /\ UNCHANGED <<invocations, chunk_files>>

\* info = get_audio_info(audio_path) and the test of the duration
ProbeAudio ==
    /\ tr_pc = "probe"
    /\ tr_pc' = IF IsLargeFile(audio_ms) THEN "open" ELSE "whole"
    /\ UNCHANGED <<cleanVars, captionVars, cacheVars, audio_source, audio_ms, transcriptions,
                   live_text, tr_ret, tr_raised, tr_failures, session_state,
                   session_before, diskVars>>

ProbeAudioFails ==
    /\ tr_pc = "probe"
    /\ Raise("probe")
    /\ UNCHANGED <<invocations, chunk_files>>

\* variant: the chunks are cut at the large-file threshold instead of
\* chunk_duration_ms
OpenChunksThresholdLength ==
    /\ tr_pc = "open"
    /\ chunks' = make_chunks(audio_ms, LARGE_FILE_THRESHOLD * 1000)
    /\ transcriptions' = <<>>
    /\ tr_pc' = "chunk"
    /\ UNCHANGED <<cleanVars, captionVars, cacheVars, audio_source, audio_ms, live_text,
                   tr_ret, tr_raised, tr_failures, session_state, session_before,
                   invocations, media_file, chunk_files>>

\* process_large_audio: AudioSegment.from_file and make_chunks
OpenChunks ==
    /\ tr_pc = "open"
    /\ chunks' = make_chunks(audio_ms, CHUNK_DURATION_MS)
    /\ transcriptions' = <<>>
    /\ tr_pc' = "chunk"
    /\ UNCHANGED <<cleanVars, captionVars, cacheVars, audio_source, audio_ms, live_text,
                   tr_ret, tr_raised, tr_failures, session_state, session_before,
                   invocations, media_file, chunk_files>>

OpenChunksFails ==
    /\ tr_pc = "open"
    /\ Raise("open")
    /\ UNCHANGED <<invocations, chunk_files>>

\* one pass of the loop: the temporary file, export, transcribe, append,
\* live display, unlink
TranscribeChunk ==
    /\ tr_pc = "chunk"
    /\ Len(transcriptions) < Len(chunks)
    /\ invocations' = Append(invocations, ChunkFile(Len(transcriptions) + 1,
                                    LanguageArgument(session_state.locked_language)))
    /\ \E text \in ChunkTexts :
        /\ transcriptions' = Append(transcriptions, text)
        /\ live_text' = current_text(transcriptions')
    /\ UNCHANGED <<cleanVars, captionVars, cacheVars, audio_source, audio_ms, tr_ret,
                   tr_raised, tr_failures, session_state, session_before, tr_pc,
                   chunks, media_file, chunk_files>>

\* chunk.export or model.transcribe raises on the next chunk: the temporary
\* file of the chunk was created with delete=False and os.unlink is not reached
ChunkFails(step) ==
    /\ tr_pc = "chunk"
    /\ Len(transcriptions) < Len(chunks)
    /\ chunk_files' = chunk_files \cup {Len(transcriptions) + 1}
    /\ invocations' = IF step = "transcribe"
                      THEN Append(invocations, ChunkFile(Len(transcriptions) + 1,
                                    LanguageArgument(session_state.locked_language)))
                      ELSE invocations
    /\ LET outcome == ChunkFailure(transcriptions)
       IN IF outcome.raised
          THEN Raise(step)
          ELSE /\ tr_failures' = tr_failures \cup {step}
               /\ tr_ret' = outcome.value
               /\ media_file' = MediaFileAfterAttempt(FALSE)
               /\ tr_pc' = "returned"
               /\ UNCHANGED <<cleanVars, captionVars, cacheVars, audio_source, audio_ms,
                              transcriptions, live_text, tr_raised, session_state,
                              session_before, chunks>>

ExportChunkFails == ChunkFails("export")

TranscribeChunkFails == ChunkFails("transcribe")

\* return ' '.join(transcriptions), and the finally clause of the caller
ReturnChunks ==
    /\ tr_pc = "chunk"
    /\ Len(transcriptions) = Len(chunks)
    /\ tr_ret' = Join(transcriptions, <<" ">>)
    /\ media_file' = MediaFileAfterAttempt(FALSE)
    /\ tr_pc' = "returned"
    /\ UNCHANGED <<cleanVars, captionVars, cacheVars, audio_source, audio_ms, transcriptions,
                   live_text, tr_raised, tr_failures, session_state, session_before,
                   chunks, invocations, chunk_files>>

\* the direct transcription of a file that is not large, and the finally
\* clause of the caller
TranscribeWhole ==
    /\ tr_pc = "whole"
    /\ invocations' = Append(invocations,
                            WholeFile(LanguageArgument(session_state.locked_language)))
    /\ \E text \in ChunkTexts :
        /\ live_text' = text
        /\ tr_ret' = text
    /\ media_file' = MediaFileAfterAttempt(FALSE)
    /\ tr_pc' = "returned"
    /\ UNCHANGED <<cleanVars, captionVars, cacheVars, audio_source, audio_ms, transcriptions,
                   tr_raised, tr_failures, session_state, session_before, chunks,
                   chunk_files>>

TranscribeWholeFails ==
    /\ tr_pc = "whole"
    /\ invocations' = Append(invocations,
                            WholeFile(LanguageArgument(session_state.locked_language)))
    /\ Raise("transcribe")
    /\ UNCHANGED chunk_files

\* the keys that hold the source, the audio information and the processing
\* time of the two transcripts of a regeneration
WhisperKeys == {"whisper_source", "whisper_audio_info", "whisper_processing_time"}
YouTubeKeys == {"youtube_source", "youtube_audio_info", "youtube_processing_time"}

\* the results are stored, transcribing and the regeneration flag are reset
\* (the time measures and source_name are left out)
StoreResults ==
    /\ tr_pc = "returned"
    /\ session_state' =
         IF session_state.manual_whisper_requested
         THEN [session_state EXCEPT !.whisper_transcription = tr_ret,
                                    !.stored_keys = @ \cup WhisperKeys,
                                    !.has_both_transcriptions = TRUE,
                                    !.transcription = tr_ret,
                                    !.audio_info = {audio_ms},
                                    !.transcription_source = OpenAIWhisper,
                                    !.transcribing = FALSE,
                                    !.manual_whisper_requested = FALSE]
         ELSE [session_state EXCEPT !.transcription = tr_ret,
                                    !.audio_info = {audio_ms},
                                    !.transcription_source = OpenAIWhisper,
                                    !.transcribing = FALSE]
    /\ tr_pc' = "rerun"
    /\ UNCHANGED <<cleanVars, captionVars, cacheVars, audio_source, audio_ms, transcriptions,
                   live_text, tr_ret, tr_raised, tr_failures, session_before,
                   diskVars>>

\* variant: the handler leaves transcribing set
HandleErrorKeepsTranscribing ==
    /\ tr_pc = "raised"
    /\ session_state' = [session_state EXCEPT !.manual_whisper_requested = FALSE]
    /\ tr_pc' = "rerun"
    /\ UNCHANGED <<cleanVars, captionVars, cacheVars, audio_source, audio_ms, transcriptions,
                   live_text, tr_ret, tr_raised, tr_failures, session_before,
                   diskVars>>

\* except Exception: transcribing and the regeneration flag are reset
HandleError ==
    /\ tr_pc = "raised"
    /\ session_state' = [session_state EXCEPT !.transcribing = FALSE,
                                              !.manual_whisper_requested = FALSE]
    /\ tr_pc' = "rerun"
    /\ UNCHANGED <<cleanVars, captionVars, cacheVars, audio_source, audio_ms, transcriptions,
                   live_text, tr_ret, tr_raised, tr_failures, session_before,
                   diskVars>>

NextTranscribe ==
    \/ DownloadAudio
    \/ DownloadAudioFails
    \/ SaveUpload
    \/ LoadModel
    \/ LoadModelFails
    \/ ProbeAudio
    \/ ProbeAudioFails
    \/ OpenChunks
    \/ OpenChunksFails
    \/ TranscribeChunk
    \/ ExportChunkFails
    \/ TranscribeChunkFails
    \/ ReturnChunks
    \/ TranscribeWhole
    \/ TranscribeWholeFails
    \/ StoreResults
    \/ HandleError

SpecTranscribe == InitTranscribe /\ [][NextTranscribe]_vars

-----------------------------------------------------------------------------
(* SpecAttempts: a session on one source over successive script runs: each *)
(* st.rerun() is followed by the next run of main, which renders the input *)
(* section and the buttons, and a click starts the next attempt            *)

\* a short file and a large one
AttemptLengths == {CHUNK_DURATION_MS, LARGE_FILE_THRESHOLD * 1000 + CHUNK_DURATION_MS \div 2}

YouTubeText == <<"s","u","b","s">>
OtherVideoText == <<"o","t","h","e","r">>

\* cached_data['subtitle_text'] of the URL
subtitle_text(url) == IF url = SecondUrl THEN OtherVideoText ELSE YouTubeText

has_youtube_transcription(session) ==
    session.transcription # None /\ Contains(session.transcription_source, YouTubeSubtitles)

\* clear_youtube_data: the video info, the URL field and, when the active
\* transcript is a caption transcript, the transcript and what belongs to it
clear_youtube_data(session) ==
    LET cleared == [session EXCEPT !.has_subtitles = FALSE,
                                   !.youtube_url_field = NoUrl]
    IN IF Contains(session.transcription_source, YouTubeSubtitles)
       THEN [cleared EXCEPT !.transcription = None,
                            !.transcription_source = None,
                            !.audio_info = {},
                            !.youtube_subtitles_shown = FALSE]
       ELSE cleared

\* render_input_section on the file tab: an uploaded file removes the
\* caption transcript of the session
ClearConflict(session) ==
    IF audio_source = "upload" /\ has_youtube_transcription(session)
    THEN clear_youtube_data(session)
    ELSE session

InitAttempts ==
    /\ IdleClean
    /\ IdleCaption
    /\ IdleCache
    /\ audio_source \in {"youtube", "upload"}
    /\ audio_ms \in AttemptLengths
    /\ transcriptions = <<>>
    /\ live_text = <<>>
    /\ tr_ret = None
    /\ tr_raised = FALSE
    /\ tr_failures = {}
    /\ \E subs \in BOOLEAN :
        /\ subs => audio_source = "youtube"
        /\ session_state = [NoSession EXCEPT !.has_subtitles = subs,
                                             !.youtube_url_field =
                                                 IF audio_source = "youtube"
                                                 THEN FirstUrl ELSE NoUrl]
    /\ session_before = session_state
    /\ tr_pc = "rerun"
    /\ chunks = <<>>
    /\ invocations = <<>>
    /\ media_file = FALSE
    /\ chunk_files = {}

\* render_input_section stores the fetched subtitles unless a regeneration
\* was requested
AutoStore(session) ==
    IF audio_source = "youtube" /\ session.has_subtitles
          /\ ~ session.manual_whisper_requested
    THEN [session EXCEPT !.transcription = subtitle_text(session.youtube_url_field),
                         !.audio_info = {audio_ms},
                         !.transcription_source = YouTubeSubtitles,
                         !.youtube_subtitles_shown = TRUE]
    ELSE session

\* "Start Transcription" is offered
StartOffered(session) ==
    ~ session.transcribing /\ ~ session.youtube_subtitles_shown

\* "Regenerate with Whisper" is offered
RegenerateOffered(session) ==
    /\ audio_source = "youtube"
    /\ session.has_subtitles
    /\ ~ session.manual_whisper_requested

\* the next run of main: render_input_section, then the branch that
\* handle_transcription_process takes
Render ==
    /\ tr_pc \in {"rerun", "clicked"}
    /\ session_state' = AutoStore(ClearConflict(session_state))
    /\ tr_pc' = IF session_state'.transcribing
                      /\ ~ session_state'.youtube_subtitles_shown
                THEN "fetch" ELSE "rendered"
    /\ UNCHANGED <<cleanVars, captionVars, cacheVars, audio_source, audio_ms, transcriptions,
                   live_text, tr_ret, tr_raised, tr_failures, session_before,
                   diskVars>>

\* a click starts an attempt: what the last attempt left is gone, except the
\* files on disk
NewAttempt(session) ==
    /\ session_state' = session
    /\ session_before' = session
    /\ transcriptions' = <<>>
    /\ live_text' = <<>>
    /\ tr_ret' = None
    /\ tr_raised' = FALSE
    /\ tr_failures' = {}
    /\ chunks' = <<>>
    /\ invocations' = <<>>
    /\ tr_pc' = "clicked"
    /\ UNCHANGED <<cleanVars, captionVars, cacheVars, audio_source, audio_ms, media_file,
                   chunk_files>>

\* the click on "Start Transcription"
StartTranscription ==
    /\ tr_pc = "rendered"
    /\ audio_source # "none"
    /\ StartOffered(session_state)
    /\ \E selection \in TranscriptionLanguages :
          NewAttempt([session_state EXCEPT !.transcribing = TRUE,
                                           !.locked_language = selection])

\* variant: the click keeps the caption text but not what belongs to it
RegenerateWithWhisperTextOnly ==
    /\ tr_pc = "rendered"
    /\ RegenerateOffered(session_state)
    /\ NewAttempt([session_state EXCEPT !.manual_whisper_requested = TRUE,
                                        !.youtube_subtitles_shown = FALSE,
                                        !.transcribing = TRUE,
                                        !.locked_language = auto,
                                        !.youtube_transcription = session_state.transcription,
                                        !.transcription = None,
                                        !.transcription_source = None,
                                        !.audio_info = {}])

\* variant: the click does not keep the caption transcript
RegenerateWithWhisperDropsCaptions ==
    /\ tr_pc = "rendered"
    /\ RegenerateOffered(session_state)
    /\ NewAttempt([session_state EXCEPT !.manual_whisper_requested = TRUE,
                                        !.youtube_subtitles_shown = FALSE,
                                        !.transcribing = TRUE,
                                        !.locked_language = auto,
                                        !.transcription = None,
                                        !.transcription_source = None,
                                        !.audio_info = {}])

\* the click on "Regenerate with Whisper"
RegenerateWithWhisper ==
    /\ tr_pc = "rendered"
    /\ RegenerateOffered(session_state)
    /\ NewAttempt([session_state EXCEPT !.manual_whisper_requested = TRUE,
                                        !.youtube_subtitles_shown = FALSE,
                                        !.transcribing = TRUE,
                                        !.locked_language = auto,
                                        !.youtube_transcription =
                                            IF session_state.transcription # None
                                            THEN session_state.transcription ELSE @,
                                        !.stored_keys =
                                            IF session_state.transcription # None
                                            THEN @ \cup YouTubeKeys ELSE @,
                                        !.transcription = None,
                                        !.transcription_source = None,
                                        !.audio_info = {}])

\* st.session_state.active_input_tab: the tab of the source
active_input_tab == IF audio_source = "youtube" THEN "youtube" ELSE "file"

NothingShown == [view |-> "none", texts |-> <<>>]

\* render_results_section: what the results section of a run shows
render_results_section(session, active_tab) ==
    LET transcription_source == session.transcription_source
        is_youtube_transcription == Contains(transcription_source, YouTubeSubtitles)
        is_file_transcription == Contains(transcription_source, OpenAIWhisper)
    IN IF session.transcription = None THEN NothingShown
       ELSE IF active_tab = "file" /\ is_youtube_transcription THEN NothingShown
       ELSE IF active_tab = "youtube" /\ is_file_transcription THEN NothingShown
       ELSE IF session.has_both_transcriptions
       THEN [view |-> "both",
             texts |-> <<session.whisper_transcription, session.youtube_transcription>>]
       ELSE [view |-> "single", texts |-> <<session.transcription>>]

\* the steps the script takes by itself
ScriptStep == Render \/ NextTranscribe

NextAttempts == ScriptStep \/ StartTranscription \/ RegenerateWithWhisper

\* a script run that can take a step takes it; a click may never come
SpecAttempts == InitAttempts /\ [][NextAttempts]_vars /\ WF_vars(ScriptStep)

-----------------------------------------------------------------------------
(* SpecSources: the session of SpecAttempts in which the user also changes *)
(* the source: another URL in the URL field, the click on the file tab and *)
(* the upload of a file                                                    *)

\* the inputs can be changed: a run has rendered and nothing is transcribing
InputsEnabled == tr_pc = "rendered" /\ ~ session_state.transcribing

\* another valid URL is typed into the URL field; the next run fetches and
\* caches its video info
ChangeUrl ==
    /\ InputsEnabled
    /\ audio_source = "youtube"
    /\ \E url \in {FirstUrl, SecondUrl} \ {session_state.youtube_url_field},
          subs \in BOOLEAN :
          session_state' = [session_state EXCEPT !.youtube_url_field = url,
                                                 !.has_subtitles = subs]
    /\ tr_pc' = "rerun"
    /\ UNCHANGED <<cleanVars, captionVars, cacheVars, audio_source, audio_ms, transcriptions,
                   live_text, tr_ret, tr_raised, tr_failures, session_before,
                   diskVars>>

\* the click on "Upload File": the file tab is active and no file is chosen
ClickUploadFile ==
    /\ InputsEnabled
    /\ audio_source = "youtube"
    /\ audio_source' = "none"
    /\ tr_pc' = "rerun"
    /\ UNCHANGED <<cleanVars, captionVars, cacheVars, audio_ms, transcriptions,
                   live_text, tr_ret, tr_raised, tr_failures, session_state,
                   session_before, diskVars>>

\* a file is chosen in the uploader
UploadFile ==
    /\ InputsEnabled
    /\ audio_source = "none"
    /\ audio_source' = "upload"
    /\ tr_pc' = "rerun"
    /\ UNCHANGED <<cleanVars, captionVars, cacheVars, audio_ms, transcriptions,
                   live_text, tr_ret, tr_raised, tr_failures, session_state,
                   session_before, diskVars>>

\* the session starts on the URL tab with a valid URL; the media are below
\* the threshold of chunked transcription
InitSources ==
    /\ InitAttempts
    /\ audio_source = "youtube"
    /\ audio_ms = CHUNK_DURATION_MS

\* the steps of a run on media transcribed in one call, the two buttons that
\* start an attempt, and the changes of the source
NextSources ==
    \/ Render
    \/ StartTranscription
    \/ RegenerateWithWhisper
    \/ DownloadAudio
    \/ DownloadAudioFails
    \/ SaveUpload
    \/ LoadModel
    \/ LoadModelFails
    \/ ProbeAudio
    \/ ProbeAudioFails
    \/ TranscribeWhole
    \/ TranscribeWholeFails
    \/ StoreResults
    \/ HandleError
    \/ ChangeUrl
    \/ ClickUploadFile
    \/ UploadFile

SpecSources == InitSources /\ [][NextSources]_vars

-----------------------------------------------------------------------------
(* SpecModelCache: requests that run in parallel in one process (one       *)
(* script thread per session): transcriptions, which take their model from *)
(* load_whisper_model, and caption lookups in 'auto' mode, which reach     *)
(* whisper.load_model('base') in detect_language_with_whisper              *)

\* the most requests in the process
MaxRequests == 3

Transcription(name) == [kind |-> "transcribe", model |-> name, pc |-> "start"]
Detection == [kind |-> "detect", model |-> "base", pc |-> "start"]

RequestKinds == {Transcription(name) : name \in ModelNames} \cup {Detection}

InitModelCache ==
    /\ IdleClean
    /\ IdleCaption
    /\ IdleTranscribe
    /\ model_cache = {}
    /\ cache_lock = 0
    /\ loads = [name \in ModelNames |-> 0]
    /\ requests \in UNION {[1..n -> RequestKinds] : n \in 1..MaxRequests}

At(r, kind, pc) ==
    /\ r \in 1..Len(requests)
    /\ requests[r].kind = kind
    /\ requests[r].pc = pc

Goto(r, pc) == requests' = [requests EXCEPT ![r].pc = pc]

\* load_whisper_model(model_name) finds the model in the cache
CacheHit(r) ==
    /\ At(r, "transcribe", "start")
    /\ requests[r].model \in model_cache
    /\ Goto(r, "done")
    /\ UNCHANGED <<cleanVars, captionVars, transcribeVars, model_cache, cache_lock, loads>>

\* load_whisper_model(model_name) does not find it: the request goes on to
\* compute the entry under the lock of the cache
CacheMiss(r) ==
    /\ At(r, "transcribe", "start")
    /\ requests[r].model \notin model_cache
    /\ Goto(r, "waiting")
    /\ UNCHANGED <<cleanVars, captionVars, transcribeVars, model_cache, cache_lock, loads>>

\* the lock is taken and the cache is read again
EnterCompute(r) ==
    /\ At(r, "transcribe", "waiting")
    /\ cache_lock = 0
    /\ IF requests[r].model \in model_cache
       THEN Goto(r, "done") /\ UNCHANGED cache_lock
       ELSE Goto(r, "loading") /\ cache_lock' = r
    /\ UNCHANGED <<cleanVars, captionVars, transcribeVars, model_cache, loads>>

\* whisper.load_model(model_name) returns, the entry is stored, the lock is
\* released
StoreModel(r) ==
    /\ At(r, "transcribe", "loading")
    /\ loads' = [loads EXCEPT ![requests[r].model] = @ + 1]
    /\ model_cache' = model_cache \cup {requests[r].model}
    /\ cache_lock' = 0
    /\ Goto(r, "done")
    /\ UNCHANGED <<cleanVars, captionVars, transcribeVars>>

\* detect_language_with_whisper: model = whisper.load_model('base'), a call
\* that does not go through load_whisper_model
DetectionLoadsModel(r) ==
    /\ At(r, "detect", "start")
    /\ loads' = [loads EXCEPT !["base"] = @ + 1]
    /\ Goto(r, "done")
    /\ UNCHANGED <<cleanVars, captionVars, transcribeVars, model_cache, cache_lock>>

NextModelCache ==
    \E r \in 1..MaxRequests :
        \/ CacheHit(r)
        \/ CacheMiss(r)
        \/ EnterCompute(r)
        \/ StoreModel(r)
        \/ DetectionLoadsModel(r)

SpecModelCache == InitModelCache /\ [][NextModelCache]_vars

-----------------------------------------------------------------------------
(* Properties of clean_subtitle_text (SpecClean)                           *)

\* the line kinds the normaliser is said to drop, on the trimmed line
HeaderLine(line) ==
    \/ StartsWith(line, <<"W","E","B","V","T","T">>)
    \/ StartsWith(line, <<"K","i","n","d",":">>)
    \/ StartsWith(line, <<"L","a","n","g","u","a","g","e",":">>)
    \/ StartsWith(line, <<"N","O","T","E">>)
TimingLine(line) ==
    \E i \in 1..(Len(line) - 2) :
        line[i] = "-" /\ line[i + 1] = "-" /\ line[i + 2] = ">"
NumericLine(line) == Len(line) > 0 /\ {line[i] : i \in 1..Len(line)} \subseteq Digits
ClockLine(line) ==
    /\ Len(line) >= 8
    /\ {line[1], line[2], line[4], line[5], line[7], line[8]} \subseteq Digits
    /\ line[3] = ":" /\ line[6] = ":"
DroppedKind(line) ==
    \/ HeaderLine(line) \/ TimingLine(line) \/ NumericLine(line)
    \/ ClockLine(line) \/ Len(line) < 3

SpokenRaw(raw) == ~DroppedKind(Strip(raw))

\* the trimmed, whitespace-normalised lines of the payload that are of no
\* dropped kind, in payload order
SpokenLines(content) ==
    LET sel == SelectSeq(SplitLines(content), SpokenRaw)
    IN [i \in 1..Len(sel) |-> NormalizeWhitespace(Strip(sel[i]))]

\* whether a is b with some elements left out (order kept)
RECURSIVE IsSubsequence(_, _)
IsSubsequence(a, b) ==
    IF a = <<>> THEN TRUE
    ELSE IF b = <<>> THEN FALSE
    ELSE IF Head(a) = Head(b) THEN IsSubsequence(Tail(a), Tail(b))
    ELSE IsSubsequence(a, Tail(b))

\* the indices of the lines of ls whose key is k
WithKey(ls, k) == {i \in 1..Len(ls) : LineKey(ls[i]) = k}

\* the keys that occur at least twice among the spoken lines
RepeatedKeys(content) ==
    LET ls == SpokenLines(content)
    IN {LineKey(ls[i]) : i \in {j \in 1..Len(ls) : Cardinality(WithKey(ls, LineKey(ls[j]))) >= 2}}

\* C3: clean_subtitle_text is idempotent: cleaning the cleaned text returns it
\* unchanged.
C3_Idempotent ==
    clean_pc = "recleaned" => recleaned_text = cleaned_text

\* C4 as stated: a spoken line that occurs two or more times (equal after
\* lowercasing and ignoring '.,!?') is kept exactly once, whatever its length.
C4_RepeatedLineKeptOnce ==
    clean_pc # "start" =>
        \A k \in RepeatedKeys(subtitle_content) :
            Cardinality(WithKey(clean_lines, k)) = 1

\* C4 amended: of a spoken line that occurs two or more times, the lines joined
\* into the output hold exactly one occurrence, the first one, when the key
\* (lowercased, '.,!?' stripped from both ends) has more than 5 characters, and
\* no occurrence when the key has 5 characters or fewer.
C4_RepeatedLineKeptOnceIfLong ==
    clean_pc # "start" =>
        \A k \in RepeatedKeys(subtitle_content) :
            LET ls == SpokenLines(subtitle_content)
                kept == WithKey(clean_lines, k)
                first == CHOOSE i \in WithKey(ls, k) : \A j \in WithKey(ls, k) : i <= j
            IN IF Len(k) > 5
               THEN /\ Cardinality(kept) = 1
                    /\ \A i \in kept : clean_lines[i] = ls[first]
               ELSE kept = {}

\* a payload that repeats a line with a long key has been cleaned, and one
\* occurrence of the line is kept
C4_Witness ==
    /\ clean_pc = "cleaned"
    /\ \E k \in RepeatedKeys(subtitle_content) :
           Len(k) > 5 /\ Cardinality(WithKey(clean_lines, k)) = 1

\* C5: header lines, cue timing lines, numeric cue numbers, lines that start
\* with HH:MM:SS and lines shorter than 3 characters contribute nothing; the
\* kept lines keep their payload order and are joined by single spaces; the
\* payload of Example 1 yields exactly "Hello world".
C5_DroppedLinesAndOrder ==
    clean_pc # "start" =>
        /\ IsSubsequence(clean_lines, SpokenLines(subtitle_content))
        /\ (\A i \in 1..Len(clean_lines) :
                \A j \in 1..Len(clean_lines[i]) :
                    clean_lines[i][j] \notin {"[", "]", "(", ")"})
            => cleaned_text = Join(clean_lines, <<" ">>)
        /\ subtitle_content = Example1 => cleaned_text = HelloWorld

\* Example 1 has been cleaned
C5_Witness ==
    /\ clean_pc = "cleaned"
    /\ subtitle_content = Example1
    /\ cleaned_text = HelloWorld
    /\ \E i \in 1..Len(SplitLines(subtitle_content)) :
           TimingLine(SplitLines(subtitle_content)[i])

-----------------------------------------------------------------------------
(* Properties of get_youtube_subtitles (SpecCaption)                       *)

\* C1: get_youtube_subtitles never raises to its caller: whatever step fails
\* (speech detection, metadata fetch, caption download, file read,
\* cleaning), the call returns a value, and the value is
\* (None, False, 'none') unless a track was read.
C1_NeverRaises ==
    /\ ~ raised
    /\ cap_pc = "done" =>
        /\ ret # NotReturned
        /\ ret = NoneTriple \/ track_read
        /\ failures \cap {"download", "read", "clean"} # {} => ret = NoneTriple

\* every step before the cleaning has failed where it could, and the call
\* has returned
C1_Witness ==
    /\ cap_pc = "done"
    /\ failures = {"detect", "metadata", "clean"}
    /\ track_read
    /\ ret = NoneTriple

\* the languages of the priority list that occur in the name of a file
MatchingLangs(file) == {i \in 1..Len(subtitle_langs) : LangInFile(subtitle_langs[i], file)}

ManualMatches == {f \in Range(subtitle_files) : IsManualFile(f) /\ MatchingLangs(f) # {}}

AutoMatches == {f \in Range(subtitle_files) : IsAutoFile(f) /\ MatchingLangs(f) # {}}

\* C10: the manual group is preferred as a whole: when a manual file matches
\* a language of the priority list the selected file is a manual file that
\* matches one, even if an auto-generated file matches an earlier language;
\* an auto-generated file is selected by language match only when no manual
\* file matches. Manual and auto-generated are the two groups the code forms.
C10_ManualGroupFirst ==
    best_subtitle # None =>
        /\ ManualMatches # {} => best_subtitle \in ManualMatches
        /\ best_subtitle \in AutoMatches => ManualMatches = {}

\* a manual file is selected although an auto-generated file matches a
\* language that comes earlier in the priority list
C10_Witness ==
    /\ best_subtitle \in ManualMatches
    /\ \E f \in AutoMatches : \E i \in MatchingLangs(f) :
           \A j \in MatchingLangs(best_subtitle) : i < j

\* a file of the listing is a caption track file
HasTrackFile ==
    \E i \in 1..Len(dir_files) :
        \/ EndsWith(dir_files[i], <<".","v","t","t">>)
        \/ EndsWith(dir_files[i], <<".","s","r","t">>)

\* C11: when the platform yields no .vtt or .srt file the call returns
\* (None, False, 'none') and does not raise; and in every return value
\* found is False exactly when the text is None and exactly when the
\* language code is 'none'.
C11_NotFoundTriple ==
    cap_pc = "done" =>
        /\ ~ HasTrackFile =>
            /\ ~ raised
            /\ ret = [text |-> None, found |-> FALSE, lang |-> none]
        /\ ~ raised =>
            /\ ret.found \in BOOLEAN
            /\ ~ ret.found <=> ret.text = None
            /\ ~ ret.found <=> ret.lang = none

\* the download succeeded and left only a file that is no caption track
C11_Witness ==
    /\ cap_pc = "done"
    /\ failures = {}
    /\ dir_files = << <<"T",".","j","p","g">> >>
    /\ ret = [text |-> None, found |-> FALSE, lang |-> none]

-----------------------------------------------------------------------------
(* Properties of the priority list (SpecPriority, SpecRerun)               *)

available_langs == subtitles \cup automatic_captions

PriorityBuilt == cap_pc = "download"

\* C6: two constructions of the priority list from the same requested
\* language, available languages, declared language and speech-detected
\* language give the same ordered list.
C6_Deterministic ==
    cap_pc = "compared" => subtitle_langs_again = subtitle_langs

\* C7: for a requested language other than 'auto' the priority list is
\* [requested, 'en'], or ['en'] when 'en' is requested, whatever the
\* available languages, the declared language and the speech detection.
C7_UserPriority ==
    PriorityBuilt /\ language # auto =>
        subtitle_langs = (IF language = en THEN <<en>> ELSE <<language, en>>)

\* 'fr' is requested for a video declared Japanese that offers no French
C7_Witness ==
    /\ PriorityBuilt
    /\ language = fr
    /\ video_language = ja
    /\ fr \notin available_langs
    /\ available_langs # {}
    /\ subtitle_langs = <<fr, en>>

\* the speech model has detected a language with confidence above one half
ConfidentDetection == detection.confidence > CONFIDENCE_THRESHOLD

\* [es, en, fr, de, it, pt] filtered to the available languages, first left out
CommonAvailableExcept(first) ==
    LET Keep(l) == l \in available_langs /\ l # first
    IN SelectSeq(<<es, en, fr, de, it, pt>>, Keep)

\* C8: in 'auto' mode the first entry is the confidently detected speech
\* language if it is available, otherwise the declared language if it is
\* available; the other entries are es, en, fr, de, it, pt in that order,
\* the available ones only and without the first entry.
C8_SmartPriority ==
    PriorityBuilt /\ language = auto =>
        IF ConfidentDetection /\ detection.language \in available_langs
        THEN subtitle_langs = <<detection.language>>
                                \o CommonAvailableExcept(detection.language)
        ELSE video_language \in available_langs =>
                subtitle_langs = <<video_language>>
                                   \o CommonAvailableExcept(video_language)

\* Spanish is detected with confidence for a video that offers en and es
C8_Witness ==
    /\ PriorityBuilt
    /\ language = auto
    /\ detection = [language |-> es, confidence |-> 90]
    /\ available_langs = {en, es}
    /\ subtitle_langs = <<es, en>>

\* neither the detected, nor the declared, nor a common language is available
NoPreferredAvailable ==
    /\ ~ (ConfidentDetection /\ detection.language \in available_langs)
    /\ video_language \notin available_langs
    /\ available_langs \cap {es, en, fr, de, it, pt} = {}

\* C9: the priority list is never empty: in 'auto' mode, when no preferred
\* language is available but some language is, it consists of at most 6
\* members of the available set; when the available set is empty (the
\* failed metadata fetch included) it is [es, en].
C9_NeverEmpty ==
    PriorityBuilt =>
        /\ subtitle_langs # <<>>
        /\ language = auto /\ available_langs # {} /\ NoPreferredAvailable =>
            /\ Len(subtitle_langs) <= 6
            /\ Range(subtitle_langs) \subseteq available_langs
        /\ language = auto /\ available_langs = {} => subtitle_langs = <<es, en>>

\* more than 6 uncommon languages are available and 6 of them are taken
C9_Witness ==
    /\ PriorityBuilt
    /\ language = auto
    /\ NoPreferredAvailable
    /\ Cardinality(available_langs) > 6
    /\ Len(subtitle_langs) = 6

-----------------------------------------------------------------------------
(* Properties of the transcription (SpecTranscribe)                        *)

\* the failures of the media probe (get_audio_info, and the decoding that
\* process_large_audio repeats), of a chunk export and of a recognition
TranscriptionFailures == {"probe", "open", "export", "transcribe"}

\* C2: when the media probe, a chunk export or a recognition fails, on the
\* whole file or on chunk k of n, transcribe_audio_file returns nothing:
\* the exception leaves it, and the texts of the chunks before k are neither
\* returned nor stored as the transcription of the session.
C2_NoPartialTranscript ==
    tr_failures \cap TranscriptionFailures # {} =>
        /\ tr_raised
        /\ tr_ret = None
        /\ session_state.transcription = session_before.transcription
        /\ session_state.whisper_transcription = session_before.whisper_transcription
        /\ tr_pc = "rerun" => ~ session_state.transcribing

\* the recognition of the third chunk has failed after two chunks were
\* transcribed, and the error has been handled
C2_Witness ==
    /\ tr_pc = "rerun"
    /\ "transcribe" \in tr_failures
    /\ Len(transcriptions) = 2
    /\ live_text # <<>>
    /\ session_state.transcription = session_before.transcription

\* process_large_audio has built its chunk list
ChunksBuilt == tr_pc = "chunk" \/ chunks # <<>>

\* the least n with n * C >= D
CeilDiv(D, C) ==
    CHOOSE n \in 0..(D \div C + 1) : n * C >= D /\ (n = 0 \/ (n - 1) * C < D)

\* C12: for audio of D ms and chunks of C ms the list has ceil(D/C) chunks,
\* chunk i covers [i*C, min((i+1)*C, D)): the chunks cover [0, D) in index
\* order without gap or overlap and only the last one may be shorter than C;
\* 150 s with C = 60000 gives [0,60s), [60,120s), [120,150s).
C12_ChunkCoverage ==
    ChunksBuilt =>
        LET D == audio_ms
            C == 60000
            n == Len(chunks)
        IN /\ n = CeilDiv(D, C)
           /\ \A i \in 1..n : /\ chunks[i][1] = (i - 1) * C
                              /\ chunks[i][2] = (IF i * C <= D THEN i * C ELSE D)
                              /\ chunks[i][1] < chunks[i][2]
           /\ n > 0 => chunks[1][1] = 0 /\ chunks[n][2] = D
           /\ \A i \in 1..(n - 1) : /\ chunks[i][2] = chunks[i + 1][1]
                                    /\ chunks[i][2] - chunks[i][1] = C
           /\ D = 150000 => chunks = << <<0, 60000>>, <<60000, 120000>>,
                                        <<120000, 150000>> >>

\* the 150-second file has been split
C12_Witness ==
    /\ tr_pc = "chunk"
    /\ audio_ms = 150000
    /\ Len(chunks) = 3
    /\ chunks[3] = <<120000, 150000>>

\* the calls of model.transcribe on the whole file, and on chunk files
WholeCalls == {j \in 1..Len(invocations) : invocations[j].kind = "whole"}
ChunkCalls == {j \in 1..Len(invocations) : invocations[j].kind = "chunk"}

\* transcribe_audio_file has returned
Returned == tr_ret # None

\* C13: transcribe_audio_file calls the speech model once, on the whole
\* file, when the duration is at most 120 s (120 s included), and takes the
\* chunked path, one call per chunk and none on the whole file, exactly
\* when the duration is above 120 s.
C13_WholeOrChunked ==
    IF audio_ms <= 120 * 1000
    THEN /\ ChunkCalls = {}
         /\ chunks = <<>>
         /\ Len(invocations) <= 1
         /\ Returned => Len(invocations) = 1
    ELSE /\ WholeCalls = {}
         /\ Returned => /\ Len(invocations) = Len(chunks)
                        /\ \A j \in 1..Len(chunks) : invocations[j].index = j

\* a file of exactly 120 s was transcribed by one call on the whole file
C13_Witness ==
    /\ audio_ms = 120000
    /\ Returned
    /\ Len(invocations) = 1
    /\ invocations[1].kind = "whole"

IsPrefix(s, t) == Len(s) <= Len(t) /\ SubSeq(t, 1, Len(s)) = s

\* the state of the chunked path: call j was made on chunk j, and the text
\* shown after chunk i is the single-space join of the texts of chunks 0..i
ChunksInOrder ==
    ChunksBuilt =>
        /\ \A j \in 1..Len(invocations) : invocations[j].kind = "chunk" /\ invocations[j].index = j
        /\ Len(invocations) \in {Len(transcriptions), Len(transcriptions) + 1}
        /\ Len(invocations) = Len(transcriptions) + 1 => tr_raised
        /\ Len(transcriptions) >= 1 => live_text = Join(transcriptions, <<" ">>)
        /\ Returned => /\ Len(transcriptions) = Len(chunks)
                       /\ tr_ret = live_text

\* C14: in the chunked path every chunk is transcribed once, in increasing
\* index order and one at a time; after chunk i the live text is the
\* single-space join of the texts of chunks 0..i, each live text is a prefix
\* of the next, and the returned transcript is the last live text.
C14_OrderedProgress ==
    /\ []ChunksInOrder
    /\ [][IsPrefix(live_text, live_text')]_vars

\* three chunks were transcribed and the transcript was returned
C14_Witness ==
    /\ Len(chunks) = 3
    /\ Len(transcriptions) = 3
    /\ Returned
    /\ tr_ret = live_text

\* C15: the temporary file of chunk i no longer exists when chunk i+1
\* starts or when the call ends, also when the export or the recognition of
\* chunk i fails.
C15_ChunkFilesRemoved ==
    tr_pc \in {"chunk", "returned", "raised", "rerun"} => chunk_files = {}

\* the attempt on the media has ended: transcribe_audio_file returned or raised
AttemptEnded == tr_pc \in {"returned", "raised", "rerun"}

\* C16: the temporary copy of the media (uploaded file or downloaded audio)
\* is deleted when the transcription attempt ends, when
\* transcribe_audio_file returns and when it raises.
C16_MediaFileRemoved == AttemptEnded => ~ media_file

\* the copy was written, the recognition raised, and the copy is gone
C16_Witness ==
    /\ tr_pc = "raised"
    /\ "transcribe" \in tr_failures
    /\ ~ media_file

-----------------------------------------------------------------------------
(* Properties of the speech models of the process (SpecModelCache)         *)

\* C17: across any interleaving of transcriptions and caption lookups in one
\* process the speech model of an identifier is loaded at most once and
\* then reused: no second load of the same identifier happens, neither from
\* two parallel first requests nor from the language detection.
C17_LoadedOnce == \A name \in ModelNames : loads[name] <= 1

-----------------------------------------------------------------------------
(* Properties of clean_subtitle_text on markup (SpecMarkup)                *)

\* a "<", one or more characters other than ">", then a ">"
HasMarkup(s) ==
    \E i \in 1..Len(s) : \E j \in (i + 2)..Len(s) :
        /\ s[i] = "<"
        /\ s[j] = ">"
        /\ \A k \in (i + 1)..(j - 1) : s[k] # ">"

HasLineBreak(s) == \E i \in 1..Len(s) : s[i] \in {"\n", "\r"}

\* C18: the text returned by clean_subtitle_text is a single line free of
\* markup: no line break and no "<", one or more non-">" characters, ">",
\* for every input (nested or malformed tags, tags split across lines, tags
\* around bracketed or parenthetical content).
C18_SingleLineNoMarkup ==
    /\ clean_pc \in {"cleaned", "recleaned"} =>
           ~HasMarkup(cleaned_text) /\ ~HasLineBreak(cleaned_text)
    /\ clean_pc = "recleaned" =>
           ~HasMarkup(recleaned_text) /\ ~HasLineBreak(recleaned_text)

\* a payload with a tag and a line break was cleaned to a non-empty text
C18_Witness ==
    /\ clean_pc = "cleaned"
    /\ HasMarkup(subtitle_content)
    /\ HasLineBreak(subtitle_content)
    /\ cleaned_text # <<>>

-----------------------------------------------------------------------------
(* Requested language and speech language (SpecCaption)                    *)

Disagreement == language # auto /\ speech_language # language

FoundSubtitles == cap_pc = "done" /\ ~ raised /\ ret.found

\* C19 as stated: when a concrete language is requested and the speech
\* language of the video differs from it, the speech language heads the
\* caption language priority and is the language code returned.
C19_SpeechLanguageWins ==
    Disagreement =>
        /\ subtitle_langs # <<>> => subtitle_langs[1] = speech_language
        /\ FoundSubtitles => ret.lang = speech_language

\* C19 as amended: when a concrete language is requested the speech model is
\* not consulted, so a differing speech language has no effect: the
\* requested language heads the priority list, and the code returned is the
\* language found by the content analysis of the caption text or, when it
\* finds none, a language taken from the file name or the priority list.
\* The speech language decides the returned code only under 'auto', when
\* the detection gave one.
C19_RequestedLanguageFirst ==
    /\ language # auto =>
        /\ detection = NoDetection
        /\ whisper_detected_lang = unknown
        /\ subtitle_langs # <<>> => subtitle_langs[1] = language
        /\ FoundSubtitles =>
              LET content_language == detect_language_from_content(ret.text)
              IN IF content_language # unknown
                 THEN ret.lang = content_language
                 ELSE ret.lang \in Range(subtitle_langs) \cup {en, es, fr}
    /\ language = auto /\ whisper_detected_lang # unknown /\ FoundSubtitles =>
          ret.lang = whisper_detected_lang

\* French is requested for a video in which Japanese is spoken; captions are
\* found and the code returned is not 'ja'
C19_Witness ==
    /\ language = fr
    /\ use_whisper_detection
    /\ speech_language = ja
    /\ subtitle_langs = <<fr, en>>
    /\ FoundSubtitles
    /\ ret.lang # speech_language

-----------------------------------------------------------------------------
(* Properties of the session over successive attempts (SpecAttempts)       *)

FatalFailures == {"download", "load", "probe", "open", "export", "transcribe"}

\* the attempt has ended in a failure and the next run has not started one
AfterFailure == tr_failures \cap FatalFailures # {} /\ tr_pc \in {"rerun", "rendered"}

\* the widgets of the input and the settings sections take disabled=transcribing
InputsUnlocked == ~ session_state.transcribing

NewAttemptOffered ==
    StartOffered(session_state) \/ RegenerateOffered(session_state)

C20_LeavesTranscribing ==
    /\ AfterFailure => InputsUnlocked
    /\ AfterFailure /\ tr_pc = "rendered" =>
          /\ NewAttemptOffered
          /\ ENABLED (StartTranscription \/ RegenerateWithWhisper)

\* C20: after a transcription attempt ends in a fatal failure (download,
\* unreadable media, speech recognition) transcribing is False on the next
\* render, the inputs are unlocked and a new attempt on the same source can
\* be started; every started attempt eventually reaches transcribing = False.
C20_FailureEndsAttempt ==
    /\ []C20_LeavesTranscribing
    /\ session_state.transcribing ~> ~ session_state.transcribing

\* on a video with fetched subtitles an attempt has failed on a chunk of a
\* large file, and the next run has rendered
C20_Witness ==
    /\ AfterFailure
    /\ tr_pc = "rendered"
    /\ "transcribe" \in tr_failures
    /\ audio_source = "youtube"
    /\ session_state.has_subtitles
    /\ chunk_files # {}

-----------------------------------------------------------------------------
(* The availability-based order (SpecPriority)                             *)

\* the number of available codes that start with the two letters of prefix
CodesStarting(prefix) ==
    Cardinality({l \in available_langs :
                    Len(l) >= 2 /\ l[1] = prefix[1] /\ l[2] = prefix[2]})

\* neither the speech-detected nor the declared language is available
NeitherAvailable ==
    /\ whisper_detected_lang \notin available_langs
    /\ video_language \notin available_langs

ScanOrder ==
    IF CodesStarting(es) > CodesStarting(en)
    THEN <<es, en, fr, de, it, pt>> ELSE <<en, es, fr, de, it, pt>>

ScanOrderAvailable ==
    LET Available(l) == l \in available_langs
    IN SelectSeq(ScanOrder, Available)

\* C21: in 'auto' mode, when neither the speech-detected nor the declared
\* language is available, the scan order is en, es, fr, de, it, pt unless
\* more available codes start with 'es' than with 'en', when it is es, en,
\* fr, de, it, pt; the priority list is that order filtered to the
\* available languages (an empty result is replaced by the fallbacks).
C21_AvailabilityOrder ==
    PriorityBuilt /\ language = auto /\ NeitherAvailable =>
        IF ScanOrderAvailable # <<>>
        THEN subtitle_langs = ScanOrderAvailable
        ELSE Range(subtitle_langs) \cap Range(ScanOrder) \subseteq {es, en} \ available_langs

\* en, es and es-419 are offered: two codes start with 'es', one with 'en'
C21_Witness ==
    /\ PriorityBuilt
    /\ language = auto
    /\ NeitherAvailable
    /\ available_langs = {en, es, es_419}
    /\ subtitle_langs = <<es, en>>

-----------------------------------------------------------------------------
(* Properties of the choice of the track file (SpecSelect)                 *)

Selected == best_subtitle # None

\* the files of the group of the selected file, in listing order
SelectedGroup ==
    IF IsManualFile(best_subtitle)
    THEN SelectSeq(subtitle_files, IsManualFile)
    ELSE SelectSeq(subtitle_files, IsAutoFile)

\* the positions in the priority list of the languages some file of the
\* group matches
GroupLangs(group) ==
    {i \in 1..Len(subtitle_langs) :
        \E k \in 1..Len(group) : LangInFile(subtitle_langs[i], group[k])}

\* C22: within the group that supplies the selection the selected file
\* matches the earliest language of the priority list for which the group
\* has a matching file, and among the files that match this language it is
\* the first in listing order.
C22_EarliestLanguageFirstFile ==
    Selected /\ MatchingLangs(best_subtitle) # {} =>
        LET group == SelectedGroup
            langs == GroupLangs(group)
        IN \E i \in langs :
            /\ \A j \in langs : i <= j
            /\ LangInFile(subtitle_langs[i], best_subtitle)
            /\ \E k \in 1..Len(group) :
                /\ group[k] = best_subtitle
                /\ \A n \in 1..(k - 1) : ~ LangInFile(subtitle_langs[i], group[n])

\* the selected file is not the first of its group: the first one matches a
\* language that comes later in the priority list
C22_Witness ==
    /\ Selected
    /\ Len(SelectedGroup) > 1
    /\ SelectedGroup[1] # best_subtitle
    /\ MatchingLangs(SelectedGroup[1]) # {}
    /\ MatchingLangs(best_subtitle) # {}
\* track files exist and none of them matches a language of the list
NoLanguageMatch ==
    /\ subtitle_files # <<>>
    /\ \A k \in 1..Len(subtitle_files) : MatchingLangs(subtitle_files[k]) = {}

FirstManualElseFirstAuto ==
    LET manual == SelectSeq(subtitle_files, IsManualFile)
        automatic == SelectSeq(subtitle_files, IsAutoFile)
    IN IF manual # <<>> THEN manual[1] ELSE automatic[1]

\* the download, the read and the cleaning went through
TrackReadable == failures \cap {"download", "read", "clean"} = {}

\* C23: when track files exist but none matches a language of the priority
\* list, the first manual file is selected if there is one, otherwise the
\* first auto-generated file; so whenever a track file exists and can be
\* read the result is found=True.
C23_FallbackFile ==
    /\ Selected /\ NoLanguageMatch => best_subtitle = FirstManualElseFirstAuto
    /\ cap_pc = "done" /\ subtitle_files # <<>> /\ TrackReadable =>
          /\ ~ raised
          /\ ret.found = TRUE
          /\ ret.text # None

\* no file matches, the first file listed is auto-generated and the manual
\* file listed after it is returned
C23_Witness ==
    /\ cap_pc = "done"
    /\ NoLanguageMatch
    /\ Len(subtitle_files) = 2
    /\ IsAutoFile(subtitle_files[1])
    /\ best_subtitle = subtitle_files[2]
    /\ ret.found = TRUE

-----------------------------------------------------------------------------
(* The language of the recognitions (SpecTranscribe)                       *)

\* the language selection the run works with
RequestLanguage == session_before.locked_language

\* C24: when the language selection is 'auto' every call of the speech
\* model made for the request (on the whole file or on a chunk, for an
\* uploaded file or for downloaded audio) is made without a language; when
\* a concrete language is selected every call carries exactly that language.
C24_LanguageOfCalls ==
    \A j \in 1..Len(invocations) :
        IF RequestLanguage = <<"a","u","t","o">>
        THEN invocations[j].language = None
        ELSE invocations[j].language = RequestLanguage

\* Spanish is selected for downloaded audio of three chunks, and each of the
\* three calls carries 'es'
C24_Witness ==
    /\ RequestLanguage = es
    /\ audio_source = "youtube"
    /\ Returned
    /\ Len(invocations) = 3
    /\ \A j \in 1..3 : invocations[j].kind = "chunk" /\ invocations[j].language = es

-----------------------------------------------------------------------------
(* The regeneration flag (SpecAttempts)                                    *)

\* the attempt was started by 'Regenerate with Whisper'
Regeneration == session_before.manual_whisper_requested /\ session_before.has_subtitles

\* the attempt has ended and the next run has rendered
EndedAndRendered == tr_pc = "rendered" /\ ~ session_state.transcribing

\* C25: whenever an attempt started by 'Regenerate with Whisper' ends, the
\* flag manual_whisper_requested is removed from the session (after success,
\* after a transcription error and after a failure of the audio download),
\* so that the next render stores the caption transcript again.
C25_FlagRemoved ==
    /\ Regeneration /\ tr_pc = "rerun" => ~ session_state.manual_whisper_requested
    /\ Regeneration /\ EndedAndRendered /\ tr_failures # {} =>
          /\ ~ session_state.manual_whisper_requested
          /\ session_state.transcription = YouTubeText

-----------------------------------------------------------------------------
(* The results section (SpecAttempts)                                      *)

\* what the results section shows in the run that has just rendered
Shown == render_results_section(session_state, active_input_tab)

\* the attempt of the session has returned a transcript and stored it
Succeeded == tr_pc = "rendered" /\ tr_ret # None /\ tr_failures = {}

\* C26: for a URL whose caption fetch found nothing, once the user has
\* started the transcription and it has succeeded, the results section of
\* the following render shows that transcript while the URL tab is active.
C26_FallbackTranscriptShown ==
    audio_source = "youtube" /\ ~ session_state.has_subtitles /\ Succeeded =>
        /\ Shown.view = "single"
        /\ Shown.texts = <<tr_ret>>

\* C27: after 'Regenerate with Whisper' and a successful speech
\* transcription the caption transcript is kept: youtube_transcription is the
\* caption text that was active at the click, whisper_transcription is the new
\* transcript, and the results section has both.
C27_BothTranscriptsKept ==
    Regeneration /\ tr_failures = {} /\ tr_ret # None
        /\ tr_pc \in {"rerun", "rendered"} =>
        /\ session_state.youtube_transcription = YouTubeText
        /\ session_state.whisper_transcription = tr_ret
        /\ session_state.has_both_transcriptions
        /\ tr_pc = "rendered" =>
              /\ Shown.view = "both"
              /\ Shown.texts = <<tr_ret, YouTubeText>>

\* a regeneration has succeeded and the next run shows the two transcripts
C27_Witness ==
    /\ Regeneration
    /\ Succeeded
    /\ Shown.view = "both"
    /\ session_state.whisper_transcription # session_state.youtube_transcription

\* the keys the two-tab view reads that the session holds
PresentKeys ==
    session_state.stored_keys
      \cup (IF session_state.whisper_transcription # None
            THEN {"whisper_transcription"} ELSE {})
      \cup (IF session_state.youtube_transcription # None
            THEN {"youtube_transcription"} ELSE {})

TwoTabKeys ==
    {"whisper_transcription", "youtube_transcription"} \cup WhisperKeys \cup YouTubeKeys

\* C28: in every reachable session state, has_both_transcriptions implies that
\* the eight keys whisper_transcription, whisper_source, whisper_audio_info,
\* whisper_processing_time, youtube_transcription, youtube_source,
\* youtube_audio_info and youtube_processing_time are present.
C28_TwoTabKeysPresent ==
    session_state.has_both_transcriptions => TwoTabKeys \subseteq PresentKeys

\* a second regeneration is running in a session that has both transcripts
C28_Witness ==
    /\ session_state.has_both_transcriptions
    /\ session_state.transcribing
    /\ session_state.manual_whisper_requested
    /\ tr_pc = "fetch"

-----------------------------------------------------------------------------
(* The two-tab view and the selected source (SpecSources)                  *)

\* C29: whenever the results section renders the two-tab view, the displayed
\* transcripts belong to the source currently selected: the source is a URL
\* and the caption transcript shown is the caption text of that URL; after a
\* switch to another URL or to an uploaded file the transcripts of the video
\* regenerated before are not displayed.
C29_TwoTabViewOfSelectedSource ==
    tr_pc = "rendered" /\ Shown.view = "both" =>
        /\ audio_source = "youtube"
        /\ Shown.texts[2] = subtitle_text(session_state.youtube_url_field)

-----------------------------------------------------------------------------
(* The language code of a found track (SpecCaption)                        *)

\* C30: whenever get_youtube_subtitles returns found = True the language
\* code returned is a concrete language, never 'unknown' and never 'none',
\* whether the file matched a language of the list or was the untagged
\* fallback, and whether the speech detection or the content analysis
\* replaced the language or not.
C30_ConcreteLanguage ==
    FoundSubtitles => ret.lang \notin {unknown, none, None}

\* the fallback file is returned: no language of the list is in its name,
\* and neither the speech detection nor the content analysis names a language
C30_Witness ==
    /\ FoundSubtitles
    /\ ~ MatchInGroup(<<best_subtitle>>, subtitle_langs).found
    /\ whisper_detected_lang = unknown
    /\ detect_language_from_content(cleaned_text) = unknown

=============================================================================
